---- MODULE Spec2Model ----
(***************************************************************************)
(* chaos-proxy: route configuration validation (internal/config), the      *)
(* fault decision (internal/chaos).                                        *)
(*                                                                         *)
(* Conventions                                                             *)
(*  - a Go string is a sequence of one-character strings, so that the      *)
(*    parsers of an upstream address work on its characters;               *)
(*  - a float64 drop rate or random draw is an integer number of           *)
(*    thousandths (DropRate 1.0 is 1000, a draw of [0,1) is 0..999);       *)
(*  - route indices in errors are 0-based as in the Go code; sequences     *)
(*    are 1-based, record i of a list has route index i-1.                 *)
(***************************************************************************)
EXTENDS Integers, Sequences, FiniteSets, TLC

\* ---------------------------------------------------------------------
\* Bounds of the model
\* ---------------------------------------------------------------------
MaxRoutes == 3
MaxDecisions == 3

\* ---------------------------------------------------------------------
\* Program constants
\* ---------------------------------------------------------------------
MaxPort == 65535
One == 1000
Millisecond == 1000000

\* ---------------------------------------------------------------------
\* Strings as character sequences
\* ---------------------------------------------------------------------
DecDigits == <<"0", "1", "2", "3", "4", "5", "6", "7", "8", "9">>

HexLetters == {"a", "b", "c", "d", "e", "f", "A", "B", "C", "D", "E", "F"}

IsDigit(c) == \E i \in 1..10 : DecDigits[i] = c

DigitVal(c) == (CHOOSE i \in 1..10 : DecDigits[i] = c) - 1

IsHex(c) == IsDigit(c) \/ c \in HexLetters

\* s[from..] (1-based), empty when from is past the end
Drop(s, n) == SubSeq(s, n + 1, Len(s))

\* index of the first / last occurrence of c in s, 0 when absent
IndexByte(s, c) ==
    IF \E i \in 1..Len(s) : s[i] = c
    THEN CHOOSE i \in 1..Len(s) : s[i] = c /\ \A j \in 1..(i - 1) : s[j] # c
    ELSE 0

LastIndexByte(s, c) ==
    IF \E i \in 1..Len(s) : s[i] = c
    THEN CHOOSE i \in 1..Len(s) : s[i] = c /\ \A j \in (i + 1)..Len(s) : s[j] # c
    ELSE 0

\* ---------------------------------------------------------------------
\* net.SplitHostPort: [ok, host, port]
\* ---------------------------------------------------------------------
SplitFail == [ok |-> FALSE, host |-> <<>>, port |-> <<>>]

SplitHostPort(hostport) ==
    LET i == LastIndexByte(hostport, ":")
    IN  IF i = 0 THEN SplitFail
        ELSE IF hostport[1] = "["
        THEN LET end == IndexByte(hostport, "]")
             IN  IF end = 0 THEN SplitFail
                 ELSE IF end = Len(hostport) THEN SplitFail
                 ELSE IF end + 1 # i THEN SplitFail
                 ELSE IF IndexByte(Drop(hostport, 1), "[") # 0 THEN SplitFail
                 ELSE IF IndexByte(Drop(hostport, end), "]") # 0 THEN SplitFail
                 ELSE [ok |-> TRUE,
                       host |-> SubSeq(hostport, 2, end - 1),
                       port |-> Drop(hostport, i)]
        ELSE LET host == SubSeq(hostport, 1, i - 1)
             IN  IF IndexByte(host, ":") # 0 THEN SplitFail
                 ELSE IF IndexByte(hostport, "[") # 0 THEN SplitFail
                 ELSE IF IndexByte(hostport, "]") # 0 THEN SplitFail
                 ELSE [ok |-> TRUE, host |-> host, port |-> Drop(hostport, i)]

\* ---------------------------------------------------------------------
\* strconv.Atoi: [ok, val].  The value saturates at AtoiCap, far above
\* every port bound, where the Go value would go on growing (and fail
\* with a range error beyond 64 bits): all such values are > 65535.
\* ---------------------------------------------------------------------
AtoiCap == 1000000

RECURSIVE DigitsValue(_, _)
DigitsValue(s, acc) ==
    IF s = <<>> THEN acc
    ELSE LET v == acc * 10 + DigitVal(Head(s))
         IN  DigitsValue(Tail(s), IF v > AtoiCap THEN AtoiCap ELSE v)

Atoi(s) ==
    LET signed == s # <<>> /\ s[1] \in {"+", "-"}
        digits == IF signed THEN Tail(s) ELSE s
    IN  IF digits = <<>> \/ \E k \in 1..Len(digits) : ~IsDigit(digits[k])
        THEN [ok |-> FALSE, val |-> 0]
        ELSE [ok |-> TRUE,
              val |-> IF signed /\ s[1] = "-"
                      THEN 0 - DigitsValue(digits, 0)
                      ELSE DigitsValue(digits, 0)]

\* ---------------------------------------------------------------------
\* net.ParseIP: TRUE when the result is not nil
\* ---------------------------------------------------------------------
\* dotted-decimal IPv4: four fields of 1..3 digits, each <= 255, no
\* leading zero; pos counts the fields completed, digLen/val the current
RECURSIVE ParseIPv4Fields(_, _, _, _)
ParseIPv4Fields(s, pos, digLen, val) ==
    IF s = <<>> THEN pos = 3 /\ digLen > 0
    ELSE LET c == Head(s)
         IN  IF IsDigit(c)
             THEN IF digLen = 1 /\ val = 0 THEN FALSE
                  ELSE LET v == val * 10 + DigitVal(c)
                       IN  IF v > 255 THEN FALSE
                           ELSE ParseIPv4Fields(Tail(s), pos, digLen + 1, v)
             ELSE IF c = "."
             THEN IF digLen = 0 THEN FALSE
                  ELSE IF pos = 3 THEN FALSE
                  ELSE ParseIPv4Fields(Tail(s), pos + 1, 0, 0)
             ELSE FALSE

ParseIPv4(s) == ParseIPv4Fields(s, 0, 0, 0)

\* number of leading hexadecimal characters of s
RECURSIVE HexLen(_)
HexLen(s) == IF s = <<>> \/ ~IsHex(Head(s)) THEN 0 ELSE 1 + HexLen(Tail(s))

\* end of the IPv6 parse: i bytes filled, ellipsis the position of "::"
\* (-1 when absent); a short address needs an ellipsis to expand
IPv6Complete(i, ellipsis) == i >= 16 \/ ellipsis >= 0

RECURSIVE ParseIPv6Groups(_, _, _)
ParseIPv6Groups(s, i, ellipsis) ==
    IF i >= 16 THEN s = <<>>
    ELSE LET off == HexLen(s)
         IN  IF off > 4 \/ off = 0 THEN FALSE
             ELSE IF off < Len(s) /\ s[off + 1] = "."
             THEN IF ellipsis < 0 /\ i # 12 THEN FALSE
                  ELSE IF i + 4 > 16 THEN FALSE
                  ELSE ParseIPv4(s) /\ IPv6Complete(i + 4, ellipsis)
             ELSE LET rest == Drop(s, off)
                  IN  IF rest = <<>> THEN IPv6Complete(i + 2, ellipsis)
                      ELSE IF rest[1] # ":" THEN FALSE
                      ELSE IF Len(rest) = 1 THEN FALSE
                      ELSE IF rest[2] = ":"
                      THEN IF ellipsis >= 0 THEN FALSE
                           ELSE IF Len(rest) = 2 THEN TRUE
                           ELSE ParseIPv6Groups(Drop(rest, 2), i + 2, i + 2)
                      ELSE ParseIPv6Groups(Tail(rest), i + 2, ellipsis)

ParseIPv6(s) ==
    IF IndexByte(s, "%") # 0 THEN FALSE
    ELSE IF Len(s) >= 2 /\ s[1] = ":" /\ s[2] = ":"
    THEN IF Len(s) = 2 THEN TRUE ELSE ParseIPv6Groups(Drop(s, 2), 0, 0)
    ELSE ParseIPv6Groups(s, 0, -1)

\* the first of '.', ':' or '%' decides the family
ParseIP(s) ==
    LET marks == {k \in 1..Len(s) : s[k] \in {".", ":", "%"}}
    IN  IF marks = {} THEN FALSE
        ELSE LET first == CHOOSE k \in marks : \A m \in marks : k <= m
             IN  IF s[first] = "." THEN ParseIPv4(s)
                 ELSE IF s[first] = ":" THEN ParseIPv6(s)
                 ELSE FALSE

\* ---------------------------------------------------------------------
\* Inputs: upstream strings.  Each sample carries its text and, as input
\* data, the shape it was written to have.
\* ---------------------------------------------------------------------
Ip127 == <<"1", "2", "7", ".", "0", ".", "0", ".", "1">>
Ip192 == <<"1", "9", "2", ".", "1", "6", "8", ".", "1", ".", "1", "0", "0">>
Port9090 == <<":", "9", "0", "9", "0">>

UEmpty == <<>>
UV4 == Ip127 \o Port9090
UV4Max == Ip192 \o <<":", "6", "5", "5", "3", "5">>
UV4Min == Ip127 \o <<":", "1">>
UV6 == <<"[", ":", ":", "1", "]">> \o Port9090
UV6Full == <<"[", "2", "0", "0", "1", ":", "d", "b", "8", ":", ":", "1", "]", ":", "8", "0", "8", "0">>
ULocalhost == <<"l", "o", "c", "a", "l", "h", "o", "s", "t">> \o Port9090
UDomain == <<"e", "x", "a", "m", "p", "l", "e", ".", "c", "o", "m">> \o Port9090
UScheme == <<"h", "t", "t", "p", ":", "/", "/">> \o Ip127 \o Port9090
UNoPort == Ip127
UPortHigh == Ip127 \o <<":", "6", "5", "5", "3", "6">>
UPortZero == Ip127 \o <<":", "0">>
UPortNeg == Ip127 \o <<":", "-", "1">>
UPortWord == Ip127 \o <<":", "w", "w", "w">>
UOctet256 == <<"2", "5", "6", ".", "0", ".", "0", ".", "1">> \o Port9090
UHostPort0 == <<"l", "o", "c", "a", "l", "h", "o", "s", "t", ":", "0">>
UBareV6 == <<":", ":", "1">> \o Port9090

UpstreamSamples ==
    { [text |-> UEmpty,     shape |-> "empty"],
      [text |-> UV4,        shape |-> "ip:port"],
      [text |-> UV4Max,     shape |-> "ip:port"],
      [text |-> UV4Min,     shape |-> "ip:port"],
      [text |-> UV6,        shape |-> "ip:port"],
      [text |-> UV6Full,    shape |-> "ip:port"],
      [text |-> ULocalhost, shape |-> "hostname"],
      [text |-> UDomain,    shape |-> "hostname"],
      [text |-> UOctet256,  shape |-> "hostname"],
      [text |-> UScheme,    shape |-> "scheme"],
      [text |-> UBareV6,    shape |-> "no split"],
      [text |-> UNoPort,    shape |-> "no port"],
      [text |-> UPortHigh,  shape |-> "bad port"],
      [text |-> UPortZero,  shape |-> "bad port"],
      [text |-> UPortNeg,   shape |-> "bad port"],
      [text |-> UPortWord,  shape |-> "bad port"],
      [text |-> UHostPort0, shape |-> "hostname, bad port"] }

Upstreams == {u.text : u \in UpstreamSamples}

ShapeOf(text) == (CHOOSE u \in UpstreamSamples : u.text = text).shape

\* ---------------------------------------------------------------------
\* config.RouteConfig and the sets the inputs are drawn from
\* ---------------------------------------------------------------------
RouteConfig(p, u, d, l) ==
    [LocalPort |-> p, Upstream |-> u, DropRate |-> d, LatencyMs |-> l]

\* every combination of boundary values, for a call on one record
FieldPorts == {-1, 0, 1, 8080, 65535, 65536}
FieldDropRates == {-1, 0, 500, 1000, 1001}
FieldLatencies == {-1, 0, 100}

FieldRoutes ==
    {RouteConfig(p, u, d, l) :
        p \in FieldPorts, u \in Upstreams, d \in FieldDropRates, l \in FieldLatencies}

\* the two records of TestValidateConfig "multiple invalid routes"
TestBadRoute0 == RouteConfig(0, UEmpty, -100, -100)
TestBadRoute1 == RouteConfig(70000, ULocalhost, 1500, 200)

\* records of the lists given to validateConfig
ListRoutes ==
    {RouteConfig(p, u, d, 100) :
        p \in {0, 8080, 8081}, u \in {UEmpty, UV4, UHostPort0}, d \in {100, 1500}}
    \cup {TestBadRoute0, TestBadRoute1}

\* records of the documents given to LoadConfig
DocRoutes ==
    {RouteConfig(p, u, 500, 250) : p \in {0, 8080, 8081}, u \in {UEmpty, UV4}}

SeqsUpTo(S, n) == UNION {[1..k -> S] : k \in 0..n}

\* ---------------------------------------------------------------------
\* The configuration document: whether the file opens, whether its text
\* is a well-formed JSON array of objects, and the objects, each a
\* function from the keys it has to their values.
\* ---------------------------------------------------------------------
KnownKeys == {"localPort", "upstream", "dropRate", "latencyMs"}

JsonObject(route, absent, extra) ==
    [k \in (KnownKeys \ absent) \cup extra |->
        IF k = "localPort" THEN route.LocalPort
        ELSE IF k = "dropRate" THEN route.DropRate
        ELSE IF k = "latencyMs" THEN route.LatencyMs
        ELSE route.Upstream]

\* objects of a document: the records, record unknownAt (if any) with an
\* extra key, record absentAt (if any) without its latencyMs key
JsonObjects(routes, unknownAt, absentAt) ==
    [i \in 1..Len(routes) |->
        JsonObject(routes[i],
                   IF i = absentAt THEN {"latencyMs"} ELSE {},
                   IF i = unknownAt THEN {"unknownField"} ELSE {})]

\* DecodeObject with the latencyMs field bound to the dropRate key
DecodeObject_WrongKey(obj) ==
    RouteConfig(IF "localPort" \in DOMAIN obj THEN obj["localPort"] ELSE 0,
                IF "upstream" \in DOMAIN obj THEN obj["upstream"] ELSE <<>>,
                IF "dropRate" \in DOMAIN obj THEN obj["dropRate"] ELSE 0,
                IF "dropRate" \in DOMAIN obj THEN obj["dropRate"] ELSE 0)

\* json.Decoder with DisallowUnknownFields into []RouteConfig: a key that
\* is absent leaves the zero value of its field
DecodeObject(obj) ==
    RouteConfig(IF "localPort" \in DOMAIN obj THEN obj["localPort"] ELSE 0,
                IF "upstream" \in DOMAIN obj THEN obj["upstream"] ELSE <<>>,
                IF "dropRate" \in DOMAIN obj THEN obj["dropRate"] ELSE 0,
                IF "latencyMs" \in DOMAIN obj THEN obj["latencyMs"] ELSE 0)

\* Decode without DisallowUnknownFields: unknown keys are ignored
Decode_AllowUnknown(document) ==
    IF ~document.wellFormed
    THEN [ok |-> FALSE, config |-> <<>>]
    ELSE [ok |-> TRUE,
          config |-> [i \in 1..Len(document.objects) |->
                        DecodeObject(document.objects[i])]]

Decode(document) ==
    IF ~document.wellFormed
       \/ \E i \in 1..Len(document.objects) :
            ~(DOMAIN document.objects[i] \subseteq KnownKeys)
    THEN [ok |-> FALSE, config |-> <<>>]
    ELSE [ok |-> TRUE,
          config |-> [i \in 1..Len(document.objects) |->
                        DecodeObject(document.objects[i])]]

\* ---------------------------------------------------------------------
\* internal/config/config.go
\* ---------------------------------------------------------------------
Err(kind, routeIndex) == [kind |-> kind, index |-> routeIndex]

\* upstreamErrors without the net.ParseIP check: any host passes
upstreamErrors_NoIpCheck(config, routeIndex) ==
    IF config.Upstream = <<>>
    THEN <<Err("upstream empty", routeIndex)>>
    ELSE LET split == SplitHostPort(config.Upstream)
         IN  IF ~split.ok
             THEN <<Err("invalid upstream format", routeIndex)>>
             ELSE LET portNum == Atoi(split.port)
                  IN  IF ~portNum.ok \/ portNum.val <= 0 \/ portNum.val > MaxPort
                      THEN <<Err("invalid upstream port", routeIndex)>>
                      ELSE <<>>

\* errors of the upstream field
upstreamErrors(config, routeIndex) ==
    IF config.Upstream = <<>>
    THEN <<Err("upstream empty", routeIndex)>>
    ELSE LET split == SplitHostPort(config.Upstream)
         IN  IF ~split.ok
             THEN <<Err("invalid upstream format", routeIndex)>>
             ELSE LET portNum == Atoi(split.port)
                  IN  (IF ~ParseIP(split.host)
                       THEN <<Err("invalid upstream host", routeIndex)>>
                       ELSE <<>>)
                      \o
                      (IF ~portNum.ok \/ portNum.val <= 0 \/ portNum.val > MaxPort
                       THEN <<Err("invalid upstream port", routeIndex)>>
                       ELSE <<>>)

\* validateRouteConfig returning at its first error
validateRouteConfig_FirstErrorOnly(config, routeIndex) ==
    IF config.LocalPort <= 0 \/ config.LocalPort > MaxPort
    THEN <<Err("invalid local port", routeIndex)>>
    ELSE IF upstreamErrors(config, routeIndex) # <<>>
    THEN <<Head(upstreamErrors(config, routeIndex))>>
    ELSE IF config.DropRate < 0 \/ config.DropRate > One
    THEN <<Err("invalid drop rate", routeIndex)>>
    ELSE IF config.LatencyMs < 0
    THEN <<Err("invalid latency", routeIndex)>>
    ELSE <<>>

\* validateRouteConfig with the local port test "< 0": port 0 passes
validateRouteConfig_PortZeroAccepted(config, routeIndex) ==
    (IF config.LocalPort < 0 \/ config.LocalPort > MaxPort
     THEN <<Err("invalid local port", routeIndex)>> ELSE <<>>)
    \o upstreamErrors(config, routeIndex)
    \o (IF config.DropRate < 0 \/ config.DropRate > One
        THEN <<Err("invalid drop rate", routeIndex)>> ELSE <<>>)
    \o (IF config.LatencyMs < 0
        THEN <<Err("invalid latency", routeIndex)>> ELSE <<>>)

validateRouteConfig(config, routeIndex) ==
    (IF config.LocalPort <= 0 \/ config.LocalPort > MaxPort
     THEN <<Err("invalid local port", routeIndex)>> ELSE <<>>)
    \o upstreamErrors(config, routeIndex)
    \o (IF config.DropRate < 0 \/ config.DropRate > One
        THEN <<Err("invalid drop rate", routeIndex)>> ELSE <<>>)
    \o (IF config.LatencyMs < 0
        THEN <<Err("invalid latency", routeIndex)>> ELSE <<>>)

\* the loop with the port entered in portMap before it is looked up
RECURSIVE validateConfigLoop_InsertFirst(_, _, _, _)
validateConfigLoop_InsertFirst(routes, i, portMap, errs) ==
    IF i > Len(routes) THEN errs
    ELSE LET route == routes[i]
             fieldErrs == errs \o validateRouteConfig(route, i - 1)
             seen == portMap \cup {route.LocalPort}
         IN  IF route.LocalPort \in seen
             THEN validateConfigLoop_InsertFirst(routes, i + 1, seen,
                      Append(fieldErrs, Err("duplicate local port", i - 1)))
             ELSE validateConfigLoop_InsertFirst(routes, i + 1, seen, fieldErrs)

\* the loop reporting a duplicate under the 1-based position of the record
RECURSIVE validateConfigLoop_IndexOffByOne(_, _, _, _)
validateConfigLoop_IndexOffByOne(routes, i, portMap, errs) ==
    IF i > Len(routes) THEN errs
    ELSE LET route == routes[i]
             fieldErrs == errs \o validateRouteConfig(route, i - 1)
         IN  IF route.LocalPort \in portMap
             THEN validateConfigLoop_IndexOffByOne(routes, i + 1, portMap,
                      Append(fieldErrs, Err("duplicate local port", i)))
             ELSE validateConfigLoop_IndexOffByOne(routes, i + 1,
                      portMap \cup {route.LocalPort}, fieldErrs)

\* the nested loop: record i is compared with every earlier record and
\* reported once for each of them that has its port
RECURSIVE validateConfigLoop_Nested(_, _, _, _)
validateConfigLoop_Nested(routes, i, portMap, errs) ==
    IF i > Len(routes) THEN errs
    ELSE LET route == routes[i]
             fieldErrs == errs \o validateRouteConfig(route, i - 1)
             earlier == Cardinality({j \in 1..(i - 1) :
                            routes[j].LocalPort = route.LocalPort})
         IN  validateConfigLoop_Nested(routes, i + 1,
                 portMap \cup {route.LocalPort},
                 fieldErrs \o [k \in 1..earlier |->
                                  Err("duplicate local port", i - 1)])

\* the loop leaving a record with field errors out of the duplicate check:
\* its port is neither looked up nor entered in portMap
RECURSIVE validateConfigLoop_ValidOnly(_, _, _, _)
validateConfigLoop_ValidOnly(routes, i, portMap, errs) ==
    IF i > Len(routes) THEN errs
    ELSE LET route == routes[i]
             own == validateRouteConfig(route, i - 1)
             fieldErrs == errs \o own
         IN  IF own # <<>>
             THEN validateConfigLoop_ValidOnly(routes, i + 1, portMap, fieldErrs)
             ELSE IF route.LocalPort \in portMap
             THEN validateConfigLoop_ValidOnly(routes, i + 1, portMap,
                      Append(fieldErrs, Err("duplicate local port", i - 1)))
             ELSE validateConfigLoop_ValidOnly(routes, i + 1,
                      portMap \cup {route.LocalPort}, fieldErrs)


\* the loop without the port map: a repeated port is not reported
RECURSIVE validateConfigLoop_NoPortMap(_, _, _, _)
validateConfigLoop_NoPortMap(routes, i, portMap, errs) ==
    IF i > Len(routes) THEN errs
    ELSE validateConfigLoop_NoPortMap(routes, i + 1, portMap,
             errs \o validateRouteConfig(routes[i], i - 1))

\* the loop of validateConfig from record i on, with the ports seen so
\* far and the errors collected so far
RECURSIVE validateConfigLoop(_, _, _, _)
validateConfigLoop(routes, i, portMap, errs) ==
    IF i > Len(routes) THEN errs
    ELSE LET route == routes[i]
             fieldErrs == errs \o validateRouteConfig(route, i - 1)
         IN  IF route.LocalPort \in portMap
             THEN validateConfigLoop(routes, i + 1, portMap,
                      Append(fieldErrs, Err("duplicate local port", i - 1)))
             ELSE validateConfigLoop(routes, i + 1,
                      portMap \cup {route.LocalPort}, fieldErrs)

validateConfig(routes) == validateConfigLoop(routes, 1, {}, <<>>)

\* a returned []RouteConfig: nil, or a slice with its items
NilTable == [isNil |-> TRUE, items |-> <<>>]
Table(items) == [isNil |-> FALSE, items |-> items]

\* LoadConfig returning the decoded records along with the errors
LoadConfig_TableWithErrors(document) ==
    IF ~document.openable
    THEN [table |-> NilTable, errs |-> <<Err("error opening file", -1)>>,
          validated |-> {}]
    ELSE LET decoded == Decode(document)
         IN  IF ~decoded.ok
             THEN [table |-> NilTable, errs |-> <<Err("invalid JSON", -1)>>,
                   validated |-> {}]
             ELSE [table |-> Table(decoded.config),
                   errs |-> validateConfig(decoded.config),
                   validated |-> {i - 1 : i \in 1..Len(decoded.config)}]

\* LoadConfig: the returned table and errors, and the route indices on
\* which validateRouteConfig has run
LoadConfig(document) ==
    IF ~document.openable
    THEN [table |-> NilTable, errs |-> <<Err("error opening file", -1)>>,
          validated |-> {}]
    ELSE LET decoded == Decode(document)
         IN  IF ~decoded.ok
             THEN [table |-> NilTable, errs |-> <<Err("invalid JSON", -1)>>,
                   validated |-> {}]
             ELSE LET validationErrors == validateConfig(decoded.config)
                      ran == {i - 1 : i \in 1..Len(decoded.config)}
                  IN  IF Len(validationErrors) > 0
                      THEN [table |-> NilTable, errs |-> validationErrors,
                            validated |-> ran]
                      ELSE [table |-> Table(decoded.config), errs |-> <<>>,
                            validated |-> ran]

\* ---------------------------------------------------------------------
\* The LoadConfig variant that logs each finding and returns one error
\* (unnamed/part_004, second package).  The validators return whether
\* they return a non-nil error.
\* ---------------------------------------------------------------------
validateRouteConfigSlog(config, routeIndex) ==
    LET portBad == config.LocalPort <= 0 \/ config.LocalPort > MaxPort
        upstreamBad ==
            IF config.Upstream = <<>> THEN TRUE
            ELSE LET split == SplitHostPort(config.Upstream)
                 IN  IF ~split.ok THEN TRUE
                     ELSE LET portNum == Atoi(split.port)
                          IN  \/ ~ParseIP(split.host)
                              \/ ~portNum.ok
                              \/ portNum.val <= 0 \/ portNum.val > MaxPort
        dropBad == config.DropRate < 0 \/ config.DropRate > One
        latencyBad == config.LatencyMs < 0
    IN  portBad \/ upstreamBad \/ dropBad \/ latencyBad

RECURSIVE validateConfigSlogLoop(_, _, _, _)
validateConfigSlogLoop(routes, i, portMap, hasErrors) ==
    IF i > Len(routes) THEN hasErrors
    ELSE LET route == routes[i]
             routeFailed == validateRouteConfigSlog(route, i - 1)
         IN  IF route.LocalPort \in portMap
             THEN validateConfigSlogLoop(routes, i + 1, portMap, TRUE)
             ELSE validateConfigSlogLoop(routes, i + 1,
                      portMap \cup {route.LocalPort}, hasErrors \/ routeFailed)

validateConfigSlog(routes) ==
    IF Len(routes) = 0 THEN TRUE
    ELSE validateConfigSlogLoop(routes, 1, {}, FALSE)

LoadConfigSlog(document) ==
    IF ~document.openable
    THEN [table |-> NilTable, errs |-> <<Err("cannot open config file", -1)>>,
          validated |-> {}]
    ELSE LET decoded == Decode(document)
         IN  IF ~decoded.ok
             THEN [table |-> NilTable, errs |-> <<Err("invalid JSON", -1)>>,
                   validated |-> {}]
             ELSE LET ran == {i - 1 : i \in 1..Len(decoded.config)}
                  IN  IF validateConfigSlog(decoded.config)
                      THEN [table |-> NilTable,
                            errs |-> <<Err("validation failed", -1)>>,
                            validated |-> ran]
                      ELSE [table |-> Table(decoded.config), errs |-> <<>>,
                            validated |-> ran]

\* ---------------------------------------------------------------------
\* internal/chaos/chaos.go
\* ---------------------------------------------------------------------
Ritual(dropRate, latencyMs) == [DropRate |-> dropRate, LatencyMs |-> latencyMs]

ZeroCurse == [DropConnections |-> FALSE, StartDelay |-> 0]

\* rand.Float64 called before the rate is looked at
DrawsRandom_Always(ritual) == TRUE

\* rand.Float64 is called only when DropRate > 0 (the && short-circuits)
DrawsRandom(ritual) == ritual.DropRate > 0

\* NewCurse without the DropRate > 0 guard and with "<=" for "<"
NewCurse_NoGuard(ritual, r) ==
    [DropConnections |-> r <= ritual.DropRate,
     StartDelay |-> IF ritual.LatencyMs > 0
                    THEN ritual.LatencyMs * Millisecond
                    ELSE 0]

\* NewCurse comparing the draw with "<=" for "<"
NewCurse_DrawLeq(ritual, r) ==
    [DropConnections |-> ritual.DropRate > 0 /\ r <= ritual.DropRate,
     StartDelay |-> IF ritual.LatencyMs > 0
                    THEN ritual.LatencyMs * Millisecond
                    ELSE 0]

\* NewCurse, r being the value rand.Float64 returns if it is called
NewCurse(ritual, r) ==
    [DropConnections |-> ritual.DropRate > 0 /\ r < ritual.DropRate,
     StartDelay |-> IF ritual.LatencyMs > 0
                    THEN ritual.LatencyMs * Millisecond
                    ELSE 0]

\* values of rand.Float64, in [0,1)
Draws == {0, 1, 99, 100, 499, 500, 998, 999}

Rituals ==
    {Ritual(d, l) : d \in {-100, 0, 1, 100, 500, 999, 1000, 1500},
                    l \in {-100, 0, 1, 100, 250}}

\* --- NewCurse at the width of Go's integers ----------------------------
\* int and time.Duration are 64-bit two's complement (amd64, arm64); a value
\* is its Int64Bytes bytes, least significant first
Int64Bytes == 8

\* the bytes of an integer n, from the least significant on, k of them
RECURSIVE Bytes(_, _)
Bytes(n, k) == IF k = 0 THEN <<>> ELSE <<n % 256>> \o Bytes(n \div 256, k - 1)

\* the int64 with the value n
Int64(n) == Bytes(n, Int64Bytes)

Negative64(a) == a[Int64Bytes] >= 128
Positive64(a) == ~Negative64(a) /\ a # Int64(0)

\* the sum of a[i] * b[k + 1 - i] for i in from..k
RECURSIVE Conv(_, _, _, _)
Conv(a, b, k, from) ==
    IF from > k THEN 0 ELSE a[from] * b[k + 1 - from] + Conv(a, b, k, from + 1)

\* the bytes k.. of the product of a and b, given the carry into byte k;
\* what does not fit in Int64Bytes bytes is lost
RECURSIVE MulBytes(_, _, _, _)
MulBytes(a, b, k, carry) ==
    IF k > Int64Bytes THEN <<>>
    ELSE LET s == carry + Conv(a, b, k, 1)
         IN  <<s % 256>> \o MulBytes(a, b, k + 1, s \div 256)

\* a * b on int64: the product wraps around
Mul64(a, b) == MulBytes(a, b, 1, 0)

\* curse64 before any call
NoCurse64 ==
    [called |-> FALSE, DropConnections |-> FALSE, StartDelay |-> Int64(0)]

\* NewCurse with LatencyMs an int and StartDelay a time.Duration of 64 bits
NewCurse64(rt, r) ==
    [called |-> TRUE,
     DropConnections |-> rt.DropRate > 0 /\ r < rt.DropRate,
     StartDelay |-> IF Positive64(rt.LatencyMs)
                    THEN Mul64(rt.LatencyMs, Int64(Millisecond))
                    ELSE Int64(0)]

\* latencies beyond TLC's integers: one hour (TestNewCurse_EdgeCases),
\* 9223372036854 (the largest whose delay fits), 9223372036855,
\* 18446744073710 and the largest int, 9223372036854775807
Latency1Hour == <<128, 238, 54, 0, 0, 0, 0, 0>>
LatencyLargestFitting == <<246, 90, 208, 123, 99, 8, 0, 0>>
LatencySmallestWrapping == <<247, 90, 208, 123, 99, 8, 0, 0>>
LatencyWrappingTwice == <<238, 181, 160, 247, 198, 16, 0, 0>>
LatencyMaxInt == <<255, 255, 255, 255, 255, 255, 255, 127>>

Latencies64 ==
    {Int64(l) : l \in {-100, -1, 0, 1, 100, 250}}
    \cup {Latency1Hour, LatencyLargestFitting, LatencySmallestWrapping,
          LatencyWrappingTwice, LatencyMaxInt}

Rituals64 ==
    {Ritual(d, l) : d \in {-100, 0, 1, 500, 1000, 1500}, l \in Latencies64}

\* ---------------------------------------------------------------------
\* State
\* ---------------------------------------------------------------------
VARIABLES
    op,         \* the operation whose call is recorded, "idle" between calls
    document,   \* the document given to LoadConfig
    routes,     \* the records written in the document / given to the validator
    table,      \* the table returned by LoadConfig
    errs,       \* the errors returned
    validated,  \* route indices validateRouteConfig ran on in this call
    ritual,     \* the fault parameters of the route whose connections are decided
    curse,      \* the result of the last NewCurse
    draw,       \* the value the last NewCurse drew, -1 if it drew none
    decisions,  \* number of NewCurse calls made for the route
    drops,      \* number of them that returned DropConnections
    randCalls,  \* number of rand.Float64 calls made
    ritual64,   \* fault parameters with LatencyMs at the width of Go's int
    curse64,    \* the result of NewCurse for them, at the width of time.Duration
    mainPc,     \* where main is: "load", "spawn", "wait", "exited"
    exitCode,   \* the exit status of the process, -1 while it runs
    cancelled,  \* whether the shutdown signal has cancelled the context
    spawned,    \* number of routes main has started a listener goroutine for
    lst,        \* per route of the table, the state of its listener
    sock,       \* per route of the table, the listening socket of its listener
    sess        \* the sessions, one per accepted connection, in accept order

configVars == <<op, document, routes, table, errs, validated>>
chaosVars == <<ritual, curse, draw, decisions, drops, randCalls,
              ritual64, curse64>>
procVars == <<mainPc, exitCode, cancelled, spawned, lst, sock, sess>>
vars == <<op, document, routes, table, errs, validated,
          ritual, curse, draw, decisions, drops, randCalls,
          ritual64, curse64,
          mainPc, exitCode, cancelled, spawned, lst, sock, sess>>

NoDocument == [openable |-> FALSE, wellFormed |-> FALSE, objects |-> <<>>]

ConfigIdle ==
    /\ op = "idle"
    /\ document = NoDocument
    /\ routes = <<>>
    /\ table = NilTable
    /\ errs = <<>>
    /\ validated = {}

ChaosIdle ==
    /\ curse = ZeroCurse
    /\ draw = -1
    /\ decisions = 0
    /\ drops = 0
    /\ randCalls = 0
    /\ ritual64 = Ritual(0, Int64(0))
    /\ curse64 = NoCurse64

ProcIdle ==
    /\ mainPc = "load"
    /\ exitCode = -1
    /\ cancelled = FALSE
    /\ spawned = 0
    /\ lst = <<>>
    /\ sock = <<>>
    /\ sess = <<>>

\* the states a configuration file can be in: missing, not JSON, JSON
FileStates ==
    { [openable |-> FALSE, wellFormed |-> TRUE],
      [openable |-> TRUE, wellFormed |-> FALSE],
      [openable |-> TRUE, wellFormed |-> TRUE] }

\* the documents: a file state, the records written, an unknown key in the
\* last record or in none, the latencyMs key absent in the first or in none
DocumentsOf(rs) ==
    { [openable |-> f.openable, wellFormed |-> f.wellFormed,
       written |-> rs,
       objects |-> JsonObjects(rs, unknownAt, absentAt)] :
        f \in FileStates, unknownAt \in {0, Len(rs)}, absentAt \in {0, 1} }

Documents == UNION {DocumentsOf(rs) : rs \in SeqsUpTo(DocRoutes, MaxRoutes)}

\* main.go / a test calls LoadConfig on a configuration file
CallLoadConfig ==
    /\ op = "idle"
    /\ \E doc \in Documents :
        LET res == LoadConfig(doc)
        IN  /\ op' = "LoadConfig"
            /\ document' = [openable |-> doc.openable,
                            wellFormed |-> doc.wellFormed,
                            objects |-> doc.objects]
            /\ routes' = doc.written
            /\ table' = res.table
            /\ errs' = res.errs
            /\ validated' = res.validated
    /\ UNCHANGED chaosVars
    /\ UNCHANGED procVars

\* the same on the logging variant of LoadConfig
CallLoadConfigSlog ==
    /\ op = "idle"
    /\ \E doc \in Documents :
        LET res == LoadConfigSlog(doc)
        IN  /\ op' = "LoadConfigSlog"
            /\ document' = [openable |-> doc.openable,
                            wellFormed |-> doc.wellFormed,
                            objects |-> doc.objects]
            /\ routes' = doc.written
            /\ table' = res.table
            /\ errs' = res.errs
            /\ validated' = res.validated
    /\ UNCHANGED chaosVars
    /\ UNCHANGED procVars

\* a direct call of validateConfig on a list of records
CallValidateConfig ==
    /\ op = "idle"
    /\ \E rs \in SeqsUpTo(ListRoutes, MaxRoutes) :
        /\ op' = "validateConfig"
        /\ routes' = rs
        /\ errs' = validateConfig(rs)
        /\ validated' = {i - 1 : i \in 1..Len(rs)}
    /\ UNCHANGED <<document, table>>
    /\ UNCHANGED chaosVars
    /\ UNCHANGED procVars

\* a direct call of validateRouteConfig on one record, as route index 0
CallValidateRouteConfig ==
    /\ op = "idle"
    /\ \E r \in FieldRoutes :
        /\ op' = "validateRouteConfig"
        /\ routes' = <<r>>
        /\ errs' = validateRouteConfig(r, 0)
        /\ validated' = {0}
    /\ UNCHANGED <<document, table>>
    /\ UNCHANGED chaosVars
    /\ UNCHANGED procVars

\* the call returns to its caller
ReturnConfig ==
    /\ op # "idle"
    /\ op' = "idle"
    /\ document' = NoDocument
    /\ routes' = <<>>
    /\ table' = NilTable
    /\ errs' = <<>>
    /\ validated' = {}
    /\ UNCHANGED chaosVars
    /\ UNCHANGED procVars

\* one connection of the route gets its fault decision
CallNewCurse ==
    /\ decisions < MaxDecisions
    /\ \E r \in Draws :
        LET c == NewCurse(ritual, r)
        IN  /\ curse' = c
            /\ draw' = IF DrawsRandom(ritual) THEN r ELSE -1
            /\ randCalls' = IF DrawsRandom(ritual) THEN randCalls + 1 ELSE randCalls
            /\ decisions' = decisions + 1
            /\ drops' = IF c.DropConnections THEN drops + 1 ELSE drops
    /\ UNCHANGED <<ritual, ritual64, curse64>>
    /\ UNCHANGED configVars
    /\ UNCHANGED procVars

InitConfig ==
    /\ ConfigIdle
    /\ ChaosIdle
    /\ ProcIdle
    /\ ritual = Ritual(0, 0)

NextConfig ==
    \/ CallLoadConfig
    \/ CallLoadConfigSlog
    \/ CallValidateConfig
    \/ CallValidateRouteConfig
    \/ ReturnConfig

SpecConfig == InitConfig /\ [][NextConfig]_vars

InitChaos ==
    /\ ConfigIdle
    /\ ChaosIdle
    /\ ProcIdle
    /\ ritual \in Rituals

NextChaos == CallNewCurse

SpecChaos == InitChaos /\ [][NextChaos]_vars

\* NewCurse is called with parameters of any size
CallNewCurse64 ==
    /\ \E r \in Draws : curse64' = NewCurse64(ritual64, r)
    /\ UNCHANGED <<ritual, curse, draw, decisions, drops, randCalls, ritual64>>
    /\ UNCHANGED configVars
    /\ UNCHANGED procVars

InitChaos64 ==
    /\ ConfigIdle
    /\ ProcIdle
    /\ ritual = Ritual(0, 0)
    /\ curse = ZeroCurse
    /\ draw = -1
    /\ decisions = 0
    /\ drops = 0
    /\ randCalls = 0
    /\ ritual64 \in Rituals64
    /\ curse64 = NoCurse64

NextChaos64 == CallNewCurse64

SpecChaos64 == InitChaos64 /\ [][NextChaos64]_vars

\* ---------------------------------------------------------------------
\* The process: cmd/main.go, internal/proxy/proxy.go
\* ---------------------------------------------------------------------
MaxConns == 2
MaxBytes == 4

\* the routes of the configurations main is started with
RtPlain == RouteConfig(8080, UV4, 0, 0)
RtDrop == RouteConfig(8081, UV4Min, 1000, 0)
RtChaos == RouteConfig(8082, UV6, 500, 1)
RtDropAlso == RouteConfig(8083, UV4Max, 1000, 0)

RtPortZero == RouteConfig(0, UV4, 0, 0)

MainRouteLists ==
    {<<>>, <<RtPlain>>, <<RtChaos>>, <<RtDrop, RtDropAlso>>,
     <<RtPlain, RtPlain>>, <<RtPortZero>>}

\* the configuration files main can be started with: the lists above in a
\* readable file, a missing file, a file with an unknown key
MainDocuments ==
    {[openable |-> TRUE, wellFormed |-> TRUE, written |-> rs,
      objects |-> JsonObjects(rs, 0, 0)] : rs \in MainRouteLists}
    \cup {[openable |-> FALSE, wellFormed |-> TRUE, written |-> <<RtPlain>>,
           objects |-> JsonObjects(<<RtPlain>>, 0, 0)],
          [openable |-> TRUE, wellFormed |-> TRUE, written |-> <<RtPlain>>,
           objects |-> JsonObjects(<<RtPlain>>, 1, 0)]}

\* the payload the tests send: byte i is 'A' + i % 26
RECURSIVE generateLargeString(_)
generateLargeString(size) ==
    IF size = 0 THEN <<>>
    ELSE Append(generateLargeString(size - 1), 65 + ((size - 1) % 26))

\* no listening socket: net.Listen has not returned one
NoSocket == [port |-> -1, open |-> FALSE]

\* the socket net.Listen returns for the local port of a route
Bound(route) == [port |-> route.LocalPort, open |-> TRUE]

\* listener.Close, deferred once net.Listen has succeeded
Close(socket) == [socket EXCEPT !.open = FALSE]

\* the session of a connection Accept has just returned: the handler is
\* given the client connection and the upstream address of the route
NewSession(r) ==
    [route |-> r, port |-> sock[r].port, upstream |-> table.items[r].Upstream,
     pc |-> "Start", clientOpen |-> TRUE, upOpen |-> FALSE,
     dials |-> 0, upConn |-> 0,
     curse |-> ZeroCurse, consulted |-> 0, waited |-> 0,
     clientClosed |-> FALSE, cWritten |-> <<>>, upRecv |-> <<>>,
     upWritten |-> <<>>, cRecv |-> <<>>, done |-> "none",
     bytesC2U |-> 0, bytesU2C |-> 0]

Running == mainPc # "exited"

Exit(code) ==
    /\ mainPc' = "exited"
    /\ exitCode' = code

Routes == 1..Len(lst)
Sessions == 1..Len(sess)
RouteOf(s) == table.items[sess[s].route]

\* --- cmd/main.go ------------------------------------------------------
\* main printing the errors of the configuration and going on
MainLoadConfig_NoFatal ==
    /\ mainPc = "load"
    /\ op = "idle"
    /\ LET res == LoadConfig(document)
       IN  /\ op' = "LoadConfig"
           /\ table' = res.table
           /\ errs' = res.errs
           /\ validated' = res.validated
           /\ mainPc' = "spawn"
           /\ exitCode' = exitCode
           /\ lst' = [i \in 1..Len(res.table.items) |-> "unstarted"]
           /\ sock' = [i \in 1..Len(res.table.items) |-> NoSocket]
    /\ UNCHANGED <<document, routes, cancelled, spawned, sess>>
    /\ UNCHANGED chaosVars

\* main loads the configuration; any error is fatal
MainLoadConfig ==
    /\ mainPc = "load"
    /\ op = "idle"
    /\ LET res == LoadConfig(document)
       IN  /\ op' = "LoadConfig"
           /\ table' = res.table
           /\ errs' = res.errs
           /\ validated' = res.validated
           /\ IF Len(res.errs) > 0
              THEN /\ Exit(1)
                   /\ lst' = lst
                   /\ sock' = sock
              ELSE /\ mainPc' = "spawn"
                   /\ exitCode' = exitCode
                   /\ lst' = [i \in 1..Len(res.table.items) |-> "unstarted"]
                   /\ sock' = [i \in 1..Len(res.table.items) |-> NoSocket]
    /\ UNCHANGED <<document, routes, cancelled, spawned, sess>>
    /\ UNCHANGED chaosVars

\* main calling ListenAndServeRoute itself: the next route is started only
\* when the listener of the previous one has returned
MainSpawn_Sequential ==
    /\ mainPc = "spawn"
    /\ spawned < Len(table.items)
    /\ spawned > 0 => lst[spawned] \in {"returned", "bindFailed", "acceptFailed"}
    /\ spawned' = spawned + 1
    /\ lst' = [lst EXCEPT ![spawned + 1] = "binding"]
    /\ UNCHANGED <<mainPc, exitCode, cancelled, sock, sess>>
    /\ UNCHANGED <<configVars, chaosVars>>

\* main starts the goroutine of the next route
MainSpawn ==
    /\ mainPc = "spawn"
    /\ spawned < Len(table.items)
    /\ spawned' = spawned + 1
    /\ lst' = [lst EXCEPT ![spawned + 1] = "binding"]
    /\ UNCHANGED <<mainPc, exitCode, cancelled, sock, sess>>
    /\ UNCHANGED <<configVars, chaosVars>>

\* every goroutine is started: main blocks in wg.Wait
MainWait ==
    /\ mainPc = "spawn"
    /\ spawned = Len(table.items)
    /\ mainPc' = "wait"
    /\ UNCHANGED <<exitCode, cancelled, spawned, lst, sock, sess>>
    /\ UNCHANGED <<configVars, chaosVars>>

\* a WaitGroup that also counts the handler goroutines: main returns only
\* when every listener has returned and every session is closed
MainReturn_WaitsSessions ==
    /\ mainPc = "wait"
    /\ \A r \in Routes : lst[r] = "returned"
    /\ \A s \in Sessions : sess[s].pc = "Closed"
    /\ Exit(0)
    /\ UNCHANGED <<cancelled, spawned, lst, sock, sess>>
    /\ UNCHANGED <<configVars, chaosVars>>

\* main waiting for the termination signal before it waits for the
\* listeners
MainReturn_AfterSignal ==
    /\ mainPc = "wait"
    /\ cancelled
    /\ \A r \in Routes : lst[r] = "returned"
    /\ Exit(0)
    /\ UNCHANGED <<cancelled, spawned, lst, sock, sess>>
    /\ UNCHANGED <<configVars, chaosVars>>

\* wg.Wait returns when every listener goroutine has returned; main returns
MainReturn ==
    /\ mainPc = "wait"
    /\ \A r \in Routes : lst[r] = "returned"
    /\ Exit(0)
    /\ UNCHANGED <<cancelled, spawned, lst, sock, sess>>
    /\ UNCHANGED <<configVars, chaosVars>>

\* the goroutine of a route ending the process on Accept errors only
ListenerFatal_AcceptOnly(r) ==
    /\ Running
    /\ lst[r] = "acceptFailed"
    /\ Exit(1)
    /\ UNCHANGED <<cancelled, spawned, lst, sock, sess>>
    /\ UNCHANGED <<configVars, chaosVars>>

\* the goroutine of a route logs the error of its listener fatally
ListenerFatal(r) ==
    /\ Running
    /\ lst[r] \in {"bindFailed", "acceptFailed"}
    /\ Exit(1)
    /\ UNCHANGED <<cancelled, spawned, lst, sock, sess>>
    /\ UNCHANGED <<configVars, chaosVars>>

\* SIGINT / SIGTERM cancels the context
Signal ==
    /\ Running
    /\ ~cancelled
    /\ cancelled' = TRUE
    /\ UNCHANGED <<mainPc, exitCode, spawned, lst, sock, sess>>
    /\ UNCHANGED <<configVars, chaosVars>>

\* --- internal/proxy/proxy.go: ListenAndServeRoute -----------------------
\* net.Listen on the local port of the route succeeds or fails
Listen(r) ==
    /\ Running
    /\ lst[r] = "binding"
    /\ \E ok \in BOOLEAN :
        /\ lst' = [lst EXCEPT ![r] = IF ok THEN "accepting" ELSE "bindFailed"]
        /\ sock' = [sock EXCEPT ![r] = IF ok THEN Bound(table.items[r]) ELSE @]
    /\ UNCHANGED <<mainPc, exitCode, cancelled, spawned, sess>>
    /\ UNCHANGED <<configVars, chaosVars>>

\* the loop calls handleConnection without the go statement: it is back in
\* Accept only when the handler of every connection it accepted has returned
AcceptReady_Sync(r) ==
    /\ lst[r] = "accepting"
    /\ \A s \in Sessions : sess[s].route = r => sess[s].pc = "Closed"

\* the loop is blocked in Accept: each handler runs in its own goroutine
AcceptReady(r) == lst[r] = "accepting"

\* what the loop returns on an error of Accept, with the results swapped
AcceptErrorResult_Swapped(closed) ==
    IF closed THEN "acceptFailed" ELSE "returned"

\* what the loop returns on an error of Accept: nil ("returned") when the
\* error is net.ErrClosed, a wrapped error otherwise
AcceptErrorResult(closed) ==
    IF closed THEN "returned" ELSE "acceptFailed"

\* Accept returns a connection; its handler is started
Accept(r) ==
    /\ Running
    /\ AcceptReady(r)
    /\ Len(sess) < MaxConns
    /\ sess' = Append(sess, NewSession(r))
    /\ UNCHANGED <<mainPc, exitCode, cancelled, spawned, lst, sock>>
    /\ UNCHANGED <<configVars, chaosVars>>

\* the loop returning the error of Accept without the deferred Close
AcceptFails_NoClose(r) ==
    /\ Running
    /\ AcceptReady(r)
    /\ lst' = [lst EXCEPT ![r] = AcceptErrorResult(FALSE)]
    /\ UNCHANGED <<mainPc, exitCode, cancelled, spawned, sock, sess>>
    /\ UNCHANGED <<configVars, chaosVars>>

\* a failure of Accept on one route ending the loop of every route
AcceptFails_EveryRoute(r) ==
    /\ Running
    /\ AcceptReady(r)
    /\ lst' = [q \in Routes |->
                IF lst[q] = "accepting" THEN AcceptErrorResult(FALSE) ELSE lst[q]]
    /\ sock' = [q \in Routes |->
                IF lst[q] = "accepting" THEN Close(sock[q]) ELSE sock[q]]
    /\ UNCHANGED <<mainPc, exitCode, cancelled, spawned, sess>>
    /\ UNCHANGED <<configVars, chaosVars>>

\* Accept fails while the listening socket is open
AcceptFails(r) ==
    /\ Running
    /\ AcceptReady(r)
    /\ lst' = [lst EXCEPT ![r] = AcceptErrorResult(FALSE)]
    /\ sock' = [sock EXCEPT ![r] = Close(@)]
    /\ UNCHANGED <<mainPc, exitCode, cancelled, spawned, sess>>
    /\ UNCHANGED <<configVars, chaosVars>>

\* the cancellation reaching the listener of the first route only
ListenerClose_FirstRouteOnly(r) ==
    /\ Running
    /\ cancelled
    /\ r = 1
    /\ lst[r] = "accepting"
    /\ lst' = [lst EXCEPT ![r] = "closing"]
    /\ sock' = [sock EXCEPT ![r] = Close(@)]
    /\ UNCHANGED <<mainPc, exitCode, cancelled, spawned, sess>>
    /\ UNCHANGED <<configVars, chaosVars>>

\* on cancellation the listening socket is closed
ListenerClose(r) ==
    /\ Running
    /\ cancelled
    /\ lst[r] = "accepting"
    /\ lst' = [lst EXCEPT ![r] = "closing"]
    /\ sock' = [sock EXCEPT ![r] = Close(@)]
    /\ UNCHANGED <<mainPc, exitCode, cancelled, spawned, sess>>
    /\ UNCHANGED <<configVars, chaosVars>>

\* the pending Accept fails with net.ErrClosed
AcceptClosed(r) ==
    /\ Running
    /\ lst[r] = "closing"
    /\ lst' = [lst EXCEPT ![r] = AcceptErrorResult(TRUE)]
    /\ sock' = [sock EXCEPT ![r] = Close(@)]
    /\ UNCHANGED <<mainPc, exitCode, cancelled, spawned, sess>>
    /\ UNCHANGED <<configVars, chaosVars>>

\* --- internal/proxy/proxy.go: handleConnection -------------------------
SessionStep(s, next) ==
    /\ Running
    /\ sess' = [sess EXCEPT ![s] = next]
    /\ UNCHANGED <<mainPc, exitCode, cancelled, spawned, lst, sock>>
    /\ UNCHANGED <<configVars, chaosVars>>

\* the handler returning without the deferred Close of the upstream
ClosedSession_LeaksUpstream(x) ==
    [x EXCEPT !.pc = "Closed", !.clientOpen = FALSE]

\* both deferred Close calls have run
ClosedSession(x) ==
    [x EXCEPT !.pc = "Closed", !.clientOpen = FALSE, !.upOpen = FALSE]

\* the handler goroutine starts and dials the upstream
Begin(s) ==
    /\ sess[s].pc = "Start"
    /\ SessionStep(s, [sess[s] EXCEPT !.pc = "DialUpstream", !.dials = @ + 1])

\* the loop calling handleConnection itself and returning its error
DialFails_StopsListener(s) ==
    /\ sess[s].pc = "DialUpstream"
    /\ ~sess[s].upOpen
    /\ Running
    /\ sess' = [sess EXCEPT ![s] = ClosedSession(sess[s])]
    /\ lst' = [lst EXCEPT ![sess[s].route] = "acceptFailed"]
    /\ UNCHANGED <<mainPc, exitCode, cancelled, spawned, sock>>
    /\ UNCHANGED <<configVars, chaosVars>>

\* the handler going on to relay after a failed dial
DialFails_Continues(s) ==
    /\ sess[s].pc = "DialUpstream"
    /\ ~sess[s].upOpen
    /\ SessionStep(s, [sess[s] EXCEPT !.pc = "Relaying"])

\* the handler dialing again after a failed dial, up to three times
DialFails_Retries(s) ==
    /\ sess[s].pc = "DialUpstream"
    /\ ~sess[s].upOpen
    /\ IF sess[s].dials < 3
       THEN SessionStep(s, [sess[s] EXCEPT !.dials = @ + 1])
       ELSE SessionStep(s, ClosedSession(sess[s]))

\* net.Dial fails: the client socket is closed and the handler returns
DialFails(s) ==
    /\ sess[s].pc = "DialUpstream"
    /\ ~sess[s].upOpen
    /\ SessionStep(s, ClosedSession(sess[s]))

\* net.Dial succeeds
DialSucceeds(s) ==
    /\ sess[s].pc = "DialUpstream"
    /\ ~sess[s].upOpen
    /\ SessionStep(s, [sess[s] EXCEPT !.upOpen = TRUE, !.upConn = s])

\* the handler ignoring the drop outcome
AfterCurse_IgnoreDrop(c) ==
    IF c.StartDelay > 0 THEN "Delaying" ELSE "Relaying"

\* the state the outcome of NewCurse leads to
AfterCurse(c) ==
    IF c.DropConnections THEN "Dropped"
    ELSE IF c.StartDelay > 0 THEN "Delaying" ELSE "Relaying"

\* the handler consulting NewCurse again when the delay starts
Consult_Again(s) ==
    /\ sess[s].pc \in {"DialUpstream", "Delaying"}
    /\ sess[s].upOpen
    /\ sess[s].consulted < 2
    /\ \E r \in Draws :
        LET c == NewCurse(Ritual(RouteOf(s).DropRate, RouteOf(s).LatencyMs), r)
        IN  SessionStep(s, [sess[s] EXCEPT !.curse = c,
                                           !.consulted = @ + 1,
                                           !.pc = AfterCurse(c)])

\* the handler consults NewCurse with the parameters of the route
Consult(s) ==
    /\ sess[s].pc = "DialUpstream"
    /\ sess[s].upOpen
    /\ \E r \in Draws :
        LET c == NewCurse(Ritual(RouteOf(s).DropRate, RouteOf(s).LatencyMs), r)
        IN  SessionStep(s, [sess[s] EXCEPT !.curse = c,
                                           !.consulted = @ + 1,
                                           !.pc = AfterCurse(c)])

\* a dropped connection: both sockets are closed at once
DropClose(s) ==
    /\ sess[s].pc = "Dropped"
    /\ SessionStep(s, ClosedSession(sess[s]))

\* one millisecond of the delay passes
DelayTick(s) ==
    /\ sess[s].pc = "Delaying"
    /\ sess[s].waited * Millisecond < sess[s].curse.StartDelay
    /\ SessionStep(s, [sess[s] EXCEPT !.waited = @ + 1])

\* relaying starts without waiting for the delay
DelayElapsed_NoWait(s) ==
    /\ sess[s].pc = "Delaying"
    /\ SessionStep(s, [sess[s] EXCEPT !.pc = "Relaying"])

\* the delay has elapsed: relaying starts
DelayElapsed(s) ==
    /\ sess[s].pc = "Delaying"
    /\ sess[s].waited * Millisecond >= sess[s].curse.StartDelay
    /\ SessionStep(s, [sess[s] EXCEPT !.pc = "Relaying"])

\* cancellation closing a session that is delaying or relaying
DelayInterrupted_AlsoRelaying(s) ==
    /\ sess[s].pc \in {"Delaying", "Relaying"}
    /\ cancelled
    /\ SessionStep(s, ClosedSession(sess[s]))

\* cancellation is looked at only when the delay has elapsed
DelayInterrupted_AfterDelay(s) ==
    /\ sess[s].pc = "Delaying"
    /\ sess[s].waited * Millisecond >= sess[s].curse.StartDelay
    /\ cancelled
    /\ SessionStep(s, ClosedSession(sess[s]))

\* cancellation interrupts the delay: the session ends without relaying
DelayInterrupted(s) ==
    /\ sess[s].pc = "Delaying"
    /\ cancelled
    /\ SessionStep(s, ClosedSession(sess[s]))

\* io.Copy handing the bytes on in the reverse order
Copy_Reversed(buf) == [i \in 1..Len(buf) |-> buf[Len(buf) + 1 - i]]

\* io.Copy hands on the bytes it read, all of them and in their order
Copy(buf) == buf

Pending(written, received) ==
    SubSeq(written, Len(received) + 1, Len(written))

\* client -> upstream: io.Copy moves what the client has written
CopyC2U(s) ==
    /\ sess[s].pc = "Relaying"
    /\ sess[s].done = "none"
    /\ Len(sess[s].upRecv) < Len(sess[s].cWritten)
    /\ LET out == Copy(Pending(sess[s].cWritten, sess[s].upRecv))
       IN  SessionStep(s, [sess[s] EXCEPT !.upRecv = @ \o out,
                                          !.bytesC2U = @ + Len(out)])

\* upstream -> client, with one counter for the process: the bytes are
\* added to the counter of the first session
CopyU2C_SharedCounter(s) ==
    /\ sess[s].pc = "Relaying"
    /\ sess[s].done = "none"
    /\ ~sess[s].clientClosed
    /\ Len(sess[s].cRecv) < Len(sess[s].upWritten)
    /\ Running
    /\ LET out == Copy(Pending(sess[s].upWritten, sess[s].cRecv))
           moved == [sess EXCEPT ![s].cRecv = @ \o out]
       IN  sess' = [moved EXCEPT ![1].bytesU2C = @ + Len(out)]
    /\ UNCHANGED <<mainPc, exitCode, cancelled, spawned, lst, sock>>
    /\ UNCHANGED <<configVars, chaosVars>>

\* upstream -> client: io.Copy moves what the upstream has written
CopyU2C(s) ==
    /\ sess[s].pc = "Relaying"
    /\ sess[s].done = "none"
    /\ ~sess[s].clientClosed
    /\ Len(sess[s].cRecv) < Len(sess[s].upWritten)
    /\ LET out == Copy(Pending(sess[s].upWritten, sess[s].cRecv))
       IN  SessionStep(s, [sess[s] EXCEPT !.cRecv = @ \o out,
                                          !.bytesU2C = @ + Len(out)])

\* the client has closed and everything it wrote is read: end of stream
ClientEof(s) ==
    /\ sess[s].pc = "Relaying"
    /\ sess[s].done = "none"
    /\ sess[s].clientClosed
    /\ Len(sess[s].upRecv) = Len(sess[s].cWritten)
    /\ SessionStep(s, [sess[s] EXCEPT !.done = "c2u"])

\* the upstream closes and everything it wrote is read: end of stream
UpstreamEof(s) ==
    /\ sess[s].pc = "Relaying"
    /\ sess[s].done = "none"
    /\ Len(sess[s].cRecv) = Len(sess[s].upWritten)
    /\ SessionStep(s, [sess[s] EXCEPT !.done = "u2c"])

\* a read or write of one direction fails
CopyFails(s, d) ==
    /\ sess[s].pc = "Relaying"
    /\ sess[s].done = "none"
    /\ SessionStep(s, [sess[s] EXCEPT !.done = d])

\* the handler receiving from done only when neither direction has
\* anything left to do
RelayClose_WaitsForBoth(s) ==
    /\ sess[s].pc = "Relaying"
    /\ sess[s].done # "none"
    /\ sess[s].clientClosed
    /\ Len(sess[s].upRecv) = Len(sess[s].cWritten)
    /\ Len(sess[s].cRecv) = Len(sess[s].upWritten)
    /\ SessionStep(s, ClosedSession(sess[s]))

\* the handler has received from done once: it returns, closing both sockets
RelayClose(s) ==
    /\ sess[s].pc = "Relaying"
    /\ sess[s].done # "none"
    /\ SessionStep(s, ClosedSession(sess[s]))

\* --- the peers ----------------------------------------------------------
\* the client writes its payload
ClientWrite(s) ==
    /\ sess[s].clientOpen
    /\ ~sess[s].clientClosed
    /\ sess[s].cWritten = <<>>
    /\ SessionStep(s, [sess[s] EXCEPT !.cWritten = generateLargeString(MaxBytes)])

\* the client closes its end of the connection
ClientClose(s) ==
    /\ sess[s].clientOpen
    /\ ~sess[s].clientClosed
    /\ SessionStep(s, [sess[s] EXCEPT !.clientClosed = TRUE])

\* the echo server writes back what it has received (handleEcho)
UpstreamEcho(s) ==
    /\ sess[s].upOpen
    /\ Len(sess[s].upWritten) < Len(sess[s].upRecv)
    /\ SessionStep(s, [sess[s] EXCEPT
          !.upWritten = @ \o Pending(sess[s].upRecv, sess[s].upWritten)])

Init ==
    /\ op = "idle"
    /\ \E doc \in MainDocuments :
        /\ document = [openable |-> doc.openable,
                       wellFormed |-> doc.wellFormed,
                       objects |-> doc.objects]
        /\ routes = doc.written
    /\ table = NilTable
    /\ errs = <<>>
    /\ validated = {}
    /\ ChaosIdle
    /\ ritual = Ritual(0, 0)
    /\ ProcIdle

Next ==
    \/ MainLoadConfig
    \/ MainSpawn
    \/ MainWait
    \/ MainReturn
    \/ Signal
    \/ \E r \in Routes : Listen(r)
    \/ \E r \in Routes : Accept(r)
    \/ \E r \in Routes : AcceptFails(r)
    \/ \E r \in Routes : ListenerClose(r)
    \/ \E r \in Routes : AcceptClosed(r)
    \/ \E r \in Routes : ListenerFatal(r)
    \/ \E s \in Sessions : Begin(s)
    \/ \E s \in Sessions : DialFails(s)
    \/ \E s \in Sessions : DialSucceeds(s)
    \/ \E s \in Sessions : Consult(s)
    \/ \E s \in Sessions : DropClose(s)
    \/ \E s \in Sessions : DelayTick(s)
    \/ \E s \in Sessions : DelayElapsed(s)
    \/ \E s \in Sessions : DelayInterrupted(s)
    \/ \E s \in Sessions : CopyC2U(s)
    \/ \E s \in Sessions : CopyU2C(s)
    \/ \E s \in Sessions : ClientEof(s)
    \/ \E s \in Sessions : UpstreamEof(s)
    \/ \E s \in Sessions : CopyFails(s, "c2u")
    \/ \E s \in Sessions : CopyFails(s, "u2c")
    \/ \E s \in Sessions : RelayClose(s)
    \/ \E s \in Sessions : ClientWrite(s)
    \/ \E s \in Sessions : ClientClose(s)
    \/ \E s \in Sessions : UpstreamEcho(s)

Spec == Init /\ [][Next]_vars

\* --- scheduling ---------------------------------------------------------
\* the steps of the goroutine of a route
ListenerStep(r) ==
    /\ r \in Routes
    /\ Listen(r) \/ ListenerClose(r) \/ AcceptClosed(r) \/ ListenerFatal(r)

\* the steps of the handler goroutine of a session
HandlerStep(s) ==
    /\ s \in Sessions
    /\ \/ Begin(s)
       \/ DialFails(s)
       \/ DialSucceeds(s)
       \/ Consult(s)
       \/ DropClose(s)
       \/ DelayTick(s)
       \/ DelayElapsed(s)
       \/ DelayInterrupted(s)
       \/ RelayClose(s)

\* the steps of the two copying goroutines of a session
CopierStep(s) ==
    /\ s \in Sessions
    /\ CopyC2U(s) \/ CopyU2C(s) \/ ClientEof(s)

\* ---------------------------------------------------------------------
\* What the inputs are, stated without the validator
\* ---------------------------------------------------------------------
PortInRange(p) == p >= 1 /\ p <= 65535

RecordValid(r) ==
    /\ PortInRange(r.LocalPort)
    /\ ShapeOf(r.Upstream) = "ip:port"
    /\ r.DropRate >= 0 /\ r.DropRate <= 1000
    /\ r.LatencyMs >= 0

AllRecordsValid(rs) == \A i \in 1..Len(rs) : RecordValid(rs[i])

PortsDistinct(rs) ==
    \A i, j \in 1..Len(rs) : i # j => rs[i].LocalPort # rs[j].LocalPort

\* number of upstream errors an upstream of the given shape calls for
UpstreamErrorsOfShape(shape) ==
    IF shape = "ip:port" THEN 0
    ELSE IF shape = "hostname, bad port" THEN 2
    ELSE 1

FieldErrorsOf(r) ==
    (IF PortInRange(r.LocalPort) THEN 0 ELSE 1)
    + UpstreamErrorsOfShape(ShapeOf(r.Upstream))
    + (IF r.DropRate >= 0 /\ r.DropRate <= 1000 THEN 0 ELSE 1)
    + (IF r.LatencyMs >= 0 THEN 0 ELSE 1)

RECURSIVE SumFieldErrors(_)
SumFieldErrors(rs) ==
    IF rs = <<>> THEN 0 ELSE FieldErrorsOf(Head(rs)) + SumFieldErrors(Tail(rs))

RepeatsOf(rs) == Len(rs) - Cardinality({rs[i].LocalPort : i \in 1..Len(rs)})

\* the document opens, is well-formed and has no unknown key
DocumentDecodes ==
    /\ document.openable
    /\ document.wellFormed
    /\ \A i \in 1..Len(document.objects) :
          DOMAIN document.objects[i] \subseteq KnownKeys

AllKeysPresent ==
    \A i \in 1..Len(document.objects) : DOMAIN document.objects[i] = KnownKeys

UpstreamKinds ==
    {"upstream empty", "invalid upstream format", "invalid upstream host",
     "invalid upstream port"}

HasKind(kind) == \E k \in 1..Len(errs) : errs[k].kind = kind

DuplicateAt(routeIndex) ==
    \E k \in 1..Len(errs) :
        errs[k].kind = "duplicate local port" /\ errs[k].index = routeIndex

FieldErrorsAt(routeIndex) ==
    Cardinality({k \in 1..Len(errs) :
        errs[k].index = routeIndex /\ errs[k].kind # "duplicate local port"})

\* ---------------------------------------------------------------------
\* Claims
\* ---------------------------------------------------------------------

\* C1: a list of individually valid records with pairwise distinct local
\* ports passes validation with zero errors, and LoadConfig returns a table
\* equal to the list written in the document: same length, same order,
\* every field of every record unchanged.
C1_ValidListAccepted ==
    /\ (op = "validateConfig" /\ AllRecordsValid(routes) /\ PortsDistinct(routes))
          => errs = <<>>
    /\ (op = "LoadConfig" /\ DocumentDecodes /\ AllKeysPresent
          /\ AllRecordsValid(routes) /\ PortsDistinct(routes))
          => (errs = <<>> /\ ~table.isNil /\ table.items = routes)

C1_Witness ==
    /\ op = "LoadConfig"
    /\ DocumentDecodes /\ AllKeysPresent
    /\ Len(routes) = 2
    /\ routes[1].LocalPort = 8081 /\ routes[2].LocalPort = 8080
    /\ AllRecordsValid(routes)
    /\ errs = <<>>
    /\ table.items = routes

\* C2: validateConfig reports a duplicate-local-port error if and only if
\* two records of its input have the same localPort.
C2_DuplicateIffRepeated ==
    op = "validateConfig"
        => (HasKind("duplicate local port") <=> ~PortsDistinct(routes))

C2_Witness ==
    /\ op = "validateConfig"
    /\ Len(routes) = 3
    /\ routes[1].LocalPort = routes[3].LocalPort
    /\ routes[1].LocalPort # routes[2].LocalPort
    /\ HasKind("duplicate local port")

\* C3 as stated: every index whose localPort is also used by another
\* record, the first occurrence included, appears in a duplicate-port error.
C3_EveryOffendingIndexReported ==
    op = "validateConfig"
        => \A i \in 1..Len(routes) :
              (\E j \in 1..Len(routes) :
                    j # i /\ routes[j].LocalPort = routes[i].LocalPort)
                 => DuplicateAt(i - 1)

\* C3 amended: the duplicate-port errors reference exactly the repeats: an
\* index appears in a duplicate-port error if and only if an earlier record
\* has the same localPort; the first occurrence of a port is not referenced.
C3_EveryRepeatReported ==
    op = "validateConfig"
        => \A i \in 1..Len(routes) :
              DuplicateAt(i - 1)
                 <=> (\E j \in 1..(i - 1) : routes[j].LocalPort = routes[i].LocalPort)

C3_Witness ==
    /\ op = "validateConfig"
    /\ Len(routes) = 3
    /\ routes[2].LocalPort = routes[1].LocalPort
    /\ routes[3].LocalPort = routes[1].LocalPort
    /\ DuplicateAt(1) /\ DuplicateAt(2) /\ ~DuplicateAt(0)

\* C4: LoadConfig returns either a table and no errors, or errors and a nil
\* table; when some record is invalid or a localPort repeats, the table is
\* nil, never the valid subset of the records.
C4_TableOrErrors ==
    /\ op \in {"LoadConfig", "LoadConfigSlog"}
          => /\ Len(errs) > 0 => (table.isNil /\ table.items = <<>>)
             /\ errs = <<>> => ~table.isNil
    /\ (op = "LoadConfig" /\ DocumentDecodes
          /\ (~AllRecordsValid(routes) \/ ~PortsDistinct(routes)))
          => (Len(errs) > 0 /\ table.isNil /\ table.items = <<>>)

C4_Witness ==
    /\ op = "LoadConfig"
    /\ DocumentDecodes
    /\ Len(routes) = 2
    /\ RecordValid(routes[1]) /\ ~RecordValid(routes[2])
    /\ Len(errs) > 0
    /\ table.isNil

\* C5: validateConfig accumulates every error: for each record as many
\* field errors as the record has invalid fields, plus one duplicate-port
\* error per repeat, so the number of errors is the sum of both (7 for the
\* two bad routes of the test).
C5_AllErrorsAccumulated ==
    op = "validateConfig"
        => /\ \A i \in 1..Len(routes) : FieldErrorsAt(i - 1) = FieldErrorsOf(routes[i])
           /\ Len(errs) = SumFieldErrors(routes) + RepeatsOf(routes)

C5_Witness ==
    /\ op = "validateConfig"
    /\ routes = <<TestBadRoute0, TestBadRoute1>>
    /\ Len(errs) = 7

\* C6: validateRouteConfig reports an invalid local port exactly when
\* localPort < 1 or > 65535, an invalid drop rate exactly when dropRate < 0
\* or > 1, an invalid latency exactly when latencyMs < 0, each whatever the
\* other fields are.
C6_FieldBounds ==
    op = "validateRouteConfig"
        => /\ HasKind("invalid local port") <=> ~PortInRange(routes[1].LocalPort)
           /\ HasKind("invalid drop rate")
                 <=> (routes[1].DropRate < 0 \/ routes[1].DropRate > 1000)
           /\ HasKind("invalid latency") <=> routes[1].LatencyMs < 0

C6_Witness ==
    /\ op = "validateRouteConfig"
    /\ routes[1].LocalPort = 65535
    /\ routes[1].DropRate = 1000
    /\ routes[1].LatencyMs = 0
    /\ routes[1].Upstream = ULocalhost
    /\ ~HasKind("invalid local port")
    /\ ~HasKind("invalid drop rate")
    /\ ~HasKind("invalid latency")
    /\ Len(errs) = 1

C8_UndecodableRejected ==
    (op = "LoadConfig" /\ ~DocumentDecodes)
        => (Len(errs) > 0 /\ table.isNil /\ validated = {})

C8_Witness ==
    /\ op = "LoadConfig"
    /\ document.openable /\ document.wellFormed
    /\ Len(routes) = 2
    /\ "unknownField" \in DOMAIN document.objects[2]
    /\ ~RecordValid(routes[1])
    /\ Len(errs) = 1
    /\ validated = {}

\* C9 as stated: both LoadConfig variants accept a well-formed document
\* whose route list is empty: no error and a table of length 0.
C9_EmptyListAccepted ==
    (op \in {"LoadConfig", "LoadConfigSlog"}
        /\ document.openable /\ document.wellFormed /\ document.objects = <<>>)
        => (errs = <<>> /\ ~table.isNil /\ Len(table.items) = 0)

\* C10: with DropRate 0 no fault decision of the route drops, with DropRate
\* 1 every one does, whatever the random draws are.
C10_BoundaryDeterministic ==
    /\ ritual.DropRate = 0
          => (drops = 0 /\ ~curse.DropConnections)
    /\ ritual.DropRate = 1000
          => (drops = decisions /\ (decisions > 0 => curse.DropConnections))

C10_Witness ==
    /\ ritual.DropRate = 1000
    /\ decisions = MaxDecisions
    /\ drops = MaxDecisions
    /\ draw = 999

NoBytesRelayed(x) ==
    /\ x.upRecv = <<>>
    /\ x.cRecv = <<>>
    /\ x.bytesC2U = 0
    /\ x.bytesU2C = 0

BothClosed(x) == ~x.clientOpen /\ ~x.upOpen

\* C12: a session whose fault outcome is drop -- every session of a route
\* with dropRate 1.0 once it has its outcome -- goes to Dropped and from
\* there to Closed only, has both sockets closed when it is Closed, and no
\* byte has been relayed in either direction.
C12_DroppedRelaysNothing ==
    \A s \in Sessions :
        /\ (sess[s].consulted > 0 /\ RouteOf(s).DropRate = One)
              => sess[s].curse.DropConnections
        /\ sess[s].curse.DropConnections
              => /\ sess[s].pc \in {"Dropped", "Closed"}
                 /\ NoBytesRelayed(sess[s])
                 /\ sess[s].pc = "Closed" => BothClosed(sess[s])

\* a dropped session of the dropRate 1.0 route is closed, the client
\* having written its payload
C12_Witness ==
    \E s \in Sessions :
        /\ RouteOf(s).DropRate = One
        /\ sess[s].curse.DropConnections
        /\ sess[s].pc = "Closed"
        /\ BothClosed(sess[s])
        /\ sess[s].cWritten # <<>>
        /\ NoBytesRelayed(sess[s])

IsPrefix(a, b) == Len(a) <= Len(b) /\ a = SubSeq(b, 1, Len(a))

C14_EndsOnFirstDirection ==
    /\ [](\A s \in Sessions :
            /\ sess[s].pc = "Closed" => BothClosed(sess[s])
            /\ (Running /\ sess[s].pc = "Relaying" /\ sess[s].done # "none")
                  => ENABLED RelayClose(s)
            /\ (Running /\ sess[s].clientClosed /\ sess[s].pc # "Closed")
                  => ENABLED (HandlerStep(s) \/ CopierStep(s)))
    /\ [][\A s \in Sessions :
            (sess[s].pc = "Relaying" /\ sess[s].done # "none"
                /\ sess'[s].pc # sess[s].pc)
                => (sess'[s].pc = "Closed" /\ BothClosed(sess'[s]))]_vars

\* a session is Closed on the end of the upstream direction while the
\* client, still connected, has written bytes that were never relayed
C14_Witness ==
    \E s \in Sessions :
        /\ sess[s].pc = "Closed"
        /\ sess[s].done = "u2c"
        /\ ~sess[s].clientClosed
        /\ Len(sess[s].upRecv) < Len(sess[s].cWritten)
        /\ BothClosed(sess[s])

\* C15: in a session that is not dropped and has a delay > 0, bytes have
\* been relayed only if the whole delay has passed since the decision:
\* while the session is Delaying nothing is relayed, whatever the client
\* has written, and it is Relaying only after waiting the full delay.
C15_NoRelayBeforeDelay ==
    \A s \in Sessions :
        (sess[s].consulted > 0 /\ ~sess[s].curse.DropConnections
            /\ sess[s].curse.StartDelay > 0)
            => /\ sess[s].pc = "Delaying" => NoBytesRelayed(sess[s])
               /\ (sess[s].pc = "Relaying" \/ ~NoBytesRelayed(sess[s]))
                     => sess[s].waited * Millisecond >= sess[s].curse.StartDelay

\* a delayed session has made the round trip of the payload, the whole
\* delay having passed
C15_Witness ==
    \E s \in Sessions :
        /\ RouteOf(s).LatencyMs > 0
        /\ ~sess[s].curse.DropConnections
        /\ sess[s].curse.StartDelay = RouteOf(s).LatencyMs * Millisecond
        /\ sess[s].waited * Millisecond >= sess[s].curse.StartDelay
        /\ sess[s].upRecv = sess[s].cWritten
        /\ sess[s].cRecv = sess[s].cWritten
        /\ sess[s].cWritten # <<>>

DialFailed(x) == x.pc = "Closed" /\ x.consulted = 0

\* C16: the step in which the dial of a session fails closes the client
\* socket of that session and changes nothing else: the listeners, the
\* process and every other session are as before; the session takes no
\* further step.
C16_DialFailureIsLocal ==
    [][\A s \in Sessions :
        /\ (sess[s].pc = "DialUpstream" /\ ~sess[s].upOpen
               /\ sess'[s].pc = "Closed")
              => /\ BothClosed(sess'[s])
                 /\ NoBytesRelayed(sess'[s])
                 /\ lst' = lst
                 /\ <<mainPc, exitCode, cancelled, spawned>>' =
                        <<mainPc, exitCode, cancelled, spawned>>
                 /\ Len(sess') = Len(sess)
                 /\ \A t \in Sessions \ {s} : sess'[t] = sess[t]
        /\ DialFailed(sess[s]) => sess'[s] = sess[s]]_vars

\* after the failed dial of a session its route is accepting, has
\* accepted a later connection that is being relayed, and can accept again
C16_Witness ==
    \E s, t \in Sessions :
        /\ DialFailed(sess[s])
        /\ ~sess[s].clientOpen
        /\ s < t
        /\ sess[t].route = sess[s].route
        /\ sess[t].pc = "Relaying"
        /\ lst[sess[s].route] = "accepting"
        /\ Running

\* C17: a listener that is accepting can accept the next connection
\* whatever its sessions are doing: no state of a forwarder, started,
\* delaying, relaying or hanging, keeps the loop out of Accept (the bound
\* on the number of connections of a run aside).
C17_AcceptNeverWaits ==
    \A r \in Routes :
        (Running /\ lst[r] = "accepting" /\ Len(sess) < MaxConns)
            => ENABLED Accept(r)

\* a connection accepted later has been served and closed while an earlier
\* one of the same route is still relaying
C17_Witness ==
    \E s, t \in Sessions :
        /\ s < t
        /\ sess[s].route = sess[t].route
        /\ sess[s].pc = "Relaying"
        /\ sess[s].done = "none"
        /\ sess[t].pc = "Closed"
        /\ sess[t].cWritten # <<>>
        /\ sess[t].cRecv = sess[t].cWritten

\* C18: when Accept fails with net.ErrClosed (the listening socket was
\* closed) the loop returns nil: the route has returned and its goroutine
\* does not end the process; on any other failure of Accept it returns an
\* error, which its goroutine reports fatally.
C18_AcceptErrorKinds ==
    /\ [][\A r \in Routes :
            /\ (lst[r] = "closing" /\ lst'[r] # lst[r])
                  => lst'[r] = "returned"
            /\ (lst[r] = "accepting" /\ lst'[r] \notin {"accepting", "closing"})
                  => lst'[r] = "acceptFailed"]_vars
    /\ [](\A r \in Routes :
            Running => /\ lst[r] = "acceptFailed" => ENABLED ListenerFatal(r)
                       /\ lst[r] = "returned" => ~ENABLED ListenerFatal(r))

\* one route has returned nil after its socket was closed, another one
\* has failed in Accept
C18_Witness ==
    \E r, q \in Routes :
        /\ lst[r] = "returned"
        /\ lst[q] = "acceptFailed"
        /\ cancelled
        /\ Running

\* C19: a route whose bind failed never accepts and has one thing left to
\* do, which it can always do: end the process; the process then exits
\* with a failure status, and once it has exited nothing runs any more,
\* whatever the other routes and their sessions were doing.
C19_BindFailureIsFatal ==
    /\ [](\A r \in Routes :
            (Running /\ lst[r] = "bindFailed")
                => /\ ENABLED ListenerFatal(r)
                   /\ ~ENABLED (Listen(r) \/ Accept(r) \/ AcceptFails(r)
                                  \/ ListenerClose(r) \/ AcceptClosed(r)))
    /\ [][/\ \A r \in Routes :
              lst[r] = "bindFailed" => lst'[r] = "bindFailed"
          /\ (Running /\ ~Running' /\ \E r \in Routes : lst[r] = "bindFailed")
                => exitCode' = 1
          /\ Running]_vars

\* the process has exited on the bind failure of one route while another
\* route was accepting and had a session in flight
C19_Witness ==
    /\ mainPc = "exited"
    /\ exitCode = 1
    /\ \E r, q \in Routes :
        /\ lst[r] = "bindFailed"
        /\ lst[q] = "accepting"
        /\ \E s \in Sessions : sess[s].route = q /\ sess[s].pc # "Closed"

\* the configuration cannot be loaded or is not valid
ConfigurationFails ==
    \/ ~DocumentDecodes
    \/ ~AllRecordsValid(routes)
    \/ ~PortsDistinct(routes)

\* C20: once main has called LoadConfig on a configuration that cannot be
\* loaded or is not valid, or LoadConfig has returned an error, the
\* errors are returned with no table, the process has exited, no
\* listener goroutine was started, no port bound, no connection accepted.
C20_NoListenerAfterConfigFailure ==
    (mainPc # "load" /\ (ConfigurationFails \/ Len(errs) > 0))
        => /\ Len(errs) > 0
           /\ table = NilTable
           /\ mainPc = "exited"
           /\ spawned = 0
           /\ lst = <<>>
           /\ sock = <<>>
           /\ sess = <<>>

\* main has exited on the error of a list that repeats a port
C20_Witness ==
    /\ mainPc = "exited"
    /\ exitCode = 1
    /\ DocumentDecodes
    /\ AllRecordsValid(routes)
    /\ ~PortsDistinct(routes)
    /\ Len(errs) > 0
    /\ lst = <<>>
    /\ sess = <<>>

\* the sessions accepted in this step
Accepted == {s \in 1..Len(sess') : s > Len(sess)}

C22_CancellationSparesRelaying ==
    /\ [](\A s \in Sessions :
            (Running /\ sess[s].pc = "Relaying")
                => /\ sess[s].clientOpen /\ sess[s].upOpen
                   /\ (sess[s].done = "none"
                         /\ Len(sess[s].upRecv) < Len(sess[s].cWritten))
                         => ENABLED CopyC2U(s)
                   /\ (sess[s].done = "none" /\ ~sess[s].clientClosed
                         /\ Len(sess[s].cRecv) < Len(sess[s].upWritten))
                         => ENABLED CopyU2C(s))
    /\ [][/\ cancelled' # cancelled => sess' = sess
          /\ \A s \in Sessions :
              (sess[s].pc = "Relaying" /\ sess'[s].pc # "Relaying")
                  => sess[s].done # "none"]_vars

\* after the signal, with its listener returned, a session has relayed
\* the payload there and back and is still relaying
C22_Witness ==
    \E s \in Sessions :
        /\ cancelled
        /\ Running
        /\ lst[sess[s].route] = "returned"
        /\ sess[s].pc = "Relaying"
        /\ sess[s].done = "none"
        /\ sess[s].cWritten # <<>>
        /\ sess[s].cRecv = sess[s].cWritten
        /\ sess[s].clientOpen /\ sess[s].upOpen

\* C23 as stated: after the signal the process has not exited, its
\* listeners having returned normally, while a session it accepted is not
\* Closed.
C23_NoExitBeforeSessionsClose ==
    (cancelled /\ mainPc = "exited" /\ exitCode = 0)
        => \A s \in Sessions : sess[s].pc = "Closed"

\* C24: every route of the table gets exactly one listener, started once
\* and without waiting for any other; a listener binds the local port of
\* its own route, and a connection accepted on that port is handed the
\* upstream of that route and of no other; a listener blocked in Accept
\* never keeps main from starting, or another route from binding.
C24_OneListenerPerRoute ==
    /\ [](/\ mainPc \in {"spawn", "wait"}
              => /\ Len(lst) = Len(table.items)
                 /\ Len(sock) = Len(table.items)
                 /\ \A r \in Routes : lst[r] # "unstarted" <=> r <= spawned
          /\ (mainPc = "spawn" /\ spawned < Len(table.items))
              => ENABLED MainSpawn
          /\ \A r \in Routes :
              /\ (Running /\ lst[r] = "binding") => ENABLED Listen(r)
              /\ sock[r] \in {NoSocket, Bound(table.items[r]),
                              Close(Bound(table.items[r]))}
              /\ lst[r] = "accepting" => sock[r] = Bound(table.items[r])
          /\ \A s \in Sessions : \A q \in Routes :
              /\ q = sess[s].route => sess[s].port = table.items[q].LocalPort
              /\ table.items[q].LocalPort = sess[s].port
                    => sess[s].upstream = table.items[q].Upstream
              /\ q # sess[s].route
                    => sess[s].port # table.items[q].LocalPort)
    /\ [][\A r \in Routes :
              lst'[r] = "binding" => lst[r] \in {"unstarted", "binding"}]_vars

\* two routes, both listeners blocked in Accept, one connection of each
\* route dialed to the upstream of its own route
C24_Witness ==
    /\ Running
    /\ Len(lst) = 2
    /\ \A r \in Routes : lst[r] = "accepting"
    /\ Len(sess) = 2
    /\ sess[1].route # sess[2].route
    /\ sess[1].upstream # sess[2].upstream
    /\ \A s \in Sessions : sess[s].upOpen

C26_DelayInterruptible ==
    /\ [](\A s \in Sessions :
            sess[s].pc = "Delaying"
                => /\ NoBytesRelayed(sess[s])
                   /\ (Running /\ cancelled) => ENABLED DelayInterrupted(s))
    /\ [][\A s \in Sessions :
            (/\ sess[s].pc = "Delaying"
             /\ sess'[s].pc # "Delaying"
             /\ sess[s].waited * Millisecond < sess[s].curse.StartDelay)
                => /\ cancelled
                   /\ sess'[s].pc = "Closed"
                   /\ NoBytesRelayed(sess'[s])]_vars

\* a session that was not dropped has ended during its delay, before the
\* delay had elapsed, after the shutdown signal
C26_Witness ==
    \E s \in Sessions :
        /\ cancelled
        /\ sess[s].pc = "Closed"
        /\ sess[s].consulted = 1
        /\ ~sess[s].curse.DropConnections
        /\ sess[s].curse.StartDelay > 0
        /\ sess[s].waited * Millisecond < sess[s].curse.StartDelay
        /\ NoBytesRelayed(sess[s])
        /\ BothClosed(sess[s])

\* the outcomes NewCurse can return for the route of session s
RouteCurses(s) ==
    {NewCurse(Ritual(RouteOf(s).DropRate, RouteOf(s).LatencyMs), r) : r \in Draws}

\* C27 as stated: every accepted connection that has ended has consulted
\* the Fault Decision Generator exactly once.
C27_EveryConnectionConsultsOnce ==
    \A s \in Sessions : sess[s].pc = "Closed" => sess[s].consulted = 1

\* C27: a connection consults the Fault Decision Generator at most once;
\* it does so once its upstream is dialed and before any byte is relayed,
\* with the drop rate and latency of the route it was accepted on; a
\* session that is dropped, delayed or relaying has taken exactly one
\* decision, and a session ends without one only when its dial failed.
C27_ConsultsOnceAfterDial ==
    /\ [](\A s \in Sessions :
            /\ sess[s].consulted \in {0, 1}
            /\ sess[s].pc \in {"Start", "DialUpstream"}
                => sess[s].consulted = 0 /\ sess[s].curse = ZeroCurse
            /\ sess[s].pc \in {"Dropped", "Delaying", "Relaying"}
                => sess[s].consulted = 1
            /\ sess[s].consulted = 1 => sess[s].curse \in RouteCurses(s)
            /\ ~NoBytesRelayed(sess[s]) => sess[s].consulted = 1
            /\ (Running /\ sess[s].pc = "DialUpstream" /\ sess[s].upOpen)
                => ENABLED Consult(s))
    /\ [][\A s \in Sessions :
            /\ sess'[s].consulted # sess[s].consulted
                => /\ sess[s].pc = "DialUpstream"
                   /\ sess[s].upOpen
                   /\ sess[s].consulted = 0
                   /\ sess'[s].consulted = 1
                   /\ NoBytesRelayed(sess'[s])
                   /\ sess'[s].curse \in RouteCurses(s)
            /\ sess'[s].curse # sess[s].curse
                => sess'[s].consulted # sess[s].consulted
            /\ (sess[s].pc = "DialUpstream" /\ sess'[s].pc # "DialUpstream")
                => (sess'[s].consulted = 0 <=> ~sess[s].upOpen)]_vars

\* two connections of the route that drops half of them (500 thousandths)
\* and delays by 1 ms: each took one decision, one was dropped, the other
\* was delayed and relayed bytes
C27_Witness ==
    \E s, t \in Sessions :
        /\ sess[s].route = sess[t].route
        /\ RouteOf(s).DropRate = 500
        /\ sess[s].consulted = 1
        /\ sess[t].consulted = 1
        /\ sess[s].curse.DropConnections
        /\ ~sess[t].curse.DropConnections
        /\ sess[t].curse.StartDelay = RouteOf(t).LatencyMs * Millisecond
        /\ ~NoBytesRelayed(sess[t])

\* the steps of the state machine of a session
SessionEdges ==
    {<<"Start", "DialUpstream">>,
     <<"DialUpstream", "Dropped">>, <<"DialUpstream", "Delaying">>,
     <<"DialUpstream", "Relaying">>, <<"DialUpstream", "Closed">>,
     <<"Dropped", "Closed">>,
     <<"Delaying", "Relaying">>, <<"Delaying", "Closed">>,
     <<"Relaying", "Closed">>}

\* C28: a session starts in Start and changes state only along
\* Start -> DialUpstream -> (Dropped | Delaying -> Relaying) -> Closed,
\* possibly skipping states but never going back; Relaying is entered only
\* with the upstream dialed and a decision that is not a drop, Dropped only
\* with a decision that is a drop; a Closed session never changes again.
C28_SessionStateMachine ==
    /\ [](\A s \in Sessions :
            /\ sess[s].pc \in {"Start", "DialUpstream", "Dropped",
                               "Delaying", "Relaying", "Closed"}
            /\ sess[s].pc \in {"Dropped", "Delaying", "Relaying"}
                => sess[s].upOpen /\ sess[s].consulted = 1
            /\ sess[s].pc = "Dropped" <=>
                  (sess[s].curse.DropConnections /\ sess[s].pc # "Closed")
            /\ sess[s].pc = "Delaying" => sess[s].curse.StartDelay > 0
            /\ ~NoBytesRelayed(sess[s])
                => sess[s].consulted = 1 /\ ~sess[s].curse.DropConnections)
    /\ [][/\ Len(sess') >= Len(sess)
          /\ \A s \in Accepted : sess'[s].pc = "Start"
          /\ \A s \in Sessions :
              /\ sess'[s].pc # sess[s].pc
                    => <<sess[s].pc, sess'[s].pc>> \in SessionEdges
              /\ sess'[s].pc = "Relaying"
                    => /\ sess'[s].upOpen
                       /\ ~sess'[s].curse.DropConnections
                       /\ sess'[s].consulted = 1
              /\ sess[s].pc = "Closed" => sess'[s] = sess[s]]_vars

\* two ways through the machine: a session closed after its dial failed,
\* and a session that relayed bytes after a delay and is closed
C28_Witness ==
    \E s, t \in Sessions :
        /\ sess[s].pc = "Closed"
        /\ DialFailed(sess[s])
        /\ sess[t].pc = "Closed"
        /\ sess[t].curse.StartDelay > 0
        /\ sess[t].waited > 0
        /\ ~NoBytesRelayed(sess[t])

\* C29: whichever way a session ends -- failed dial, drop, interrupted
\* delay, end of stream or error of a relay direction -- the step that
\* takes it to Closed leaves its client socket closed and its upstream
\* socket closed; a Closed session has no open socket, and a socket that
\* was closed is never open again.
C29_ClosedMeansSocketsClosed ==
    /\ [](\A s \in Sessions :
            /\ sess[s].pc = "Closed" => BothClosed(sess[s])
            /\ sess[s].pc # "Closed" => sess[s].clientOpen
            /\ sess[s].upOpen => sess[s].pc \notin {"Start", "Closed"})
    /\ [][\A s \in Sessions :
            /\ (sess[s].pc # "Closed" /\ sess'[s].pc = "Closed")
                => /\ sess[s].pc \in {"DialUpstream", "Dropped",
                                      "Delaying", "Relaying"}
                   /\ ~sess'[s].clientOpen
                   /\ ~sess'[s].upOpen
            /\ ~sess[s].clientOpen => ~sess'[s].clientOpen
            /\ (sess[s].upOpen /\ ~sess'[s].upOpen)
                => sess'[s].pc = "Closed"]_vars

\* a session whose upstream was dialed and which was then dropped, and a
\* session that ended when a relay direction finished: both are Closed
\* with their two sockets closed
C29_Witness ==
    \E s, t \in Sessions :
        /\ sess[s].pc = "Closed"
        /\ sess[s].consulted = 1
        /\ sess[s].curse.DropConnections
        /\ BothClosed(sess[s])
        /\ sess[t].pc = "Closed"
        /\ sess[t].done # "none"
        /\ sess[t].bytesC2U > 0
        /\ BothClosed(sess[t])

\* the steps of the listener of a route
ListenerEdges ==
    {<<"unstarted", "binding">>,
     <<"binding", "accepting">>, <<"binding", "bindFailed">>,
     <<"accepting", "closing">>, <<"accepting", "acceptFailed">>,
     <<"closing", "returned">>}

\* C30: the listener of a route has an open listening socket exactly while
\* it is accepting, which it is only after a successful bind of its port;
\* connections are accepted only then; the socket is closed only by
\* cancellation or by an accept failure, and a listener whose socket is
\* closed never accepts again; once ListenAndServeRoute has returned after
\* a successful bind its socket is closed.
C30_ListenerStateMachine ==
    /\ [](\A r \in Routes :
            /\ sock[r].open <=> lst[r] = "accepting"
            /\ lst[r] \in {"unstarted", "binding", "bindFailed"}
                <=> sock[r] = NoSocket
            /\ lst[r] \in {"closing", "returned", "acceptFailed"}
                => sock[r] = Close(Bound(table.items[r]))
            /\ (\E s \in Sessions : sess[s].route = r) => sock[r] # NoSocket
            /\ ENABLED Accept(r) => lst[r] = "accepting" /\ sock[r].open)
    /\ [][\A r \in Routes :
            /\ lst'[r] # lst[r] => <<lst[r], lst'[r]>> \in ListenerEdges
            /\ (\E s \in Accepted : sess'[s].route = r)
                => /\ lst[r] = "accepting"
                   /\ sock[r] = Bound(table.items[r])
            /\ (sock[r].open /\ ~sock'[r].open)
                => \/ cancelled /\ lst'[r] = "closing"
                   \/ lst'[r] = "acceptFailed"
            /\ (sock[r] # NoSocket /\ ~sock[r].open)
                => ~sock'[r].open /\ lst'[r] # "accepting"]_vars

\* two listeners that both accepted a connection: the first returned nil
\* after the cancellation, the second returned the error of a failed
\* Accept; both sockets are closed
C30_Witness ==
    /\ Len(lst) = 2
    /\ cancelled
    /\ lst[1] = "returned"
    /\ lst[2] = "acceptFailed"
    /\ \A r \in Routes : sock[r] = Close(Bound(table.items[r]))
    /\ \A r \in Routes : \E s \in Sessions : sess[s].route = r

\* C31 as stated: once the accept loop of a route has ended on an accept
\* failure, every other route that is accepting keeps accepting
\* connections.
C31_OtherRoutesKeepAccepting ==
    \A r, q \in Routes :
        (/\ lst[r] = "acceptFailed"
         /\ lst[q] = "accepting"
         /\ Len(sess) < MaxConns)
            => ENABLED Accept(q)

\* C31: the step in which Accept fails on a route without cancellation of
\* its socket ends the loop of that route with an error and closes its
\* socket, and changes no other listener, no socket of another route and
\* no session; the error is surfaced: the goroutine of the route can end
\* the process with status 1, and the process ends with status 1 only on
\* the error of a configuration or of a listener; as long as the process
\* runs, a route that is accepting can accept whatever the other routes'
\* listeners have returned.
C31_AcceptFailureIsLocal ==
    /\ [](\A r \in Routes :
            /\ (Running /\ lst[r] = "acceptFailed") => ENABLED ListenerFatal(r)
            /\ (Running /\ lst[r] = "accepting" /\ Len(sess) < MaxConns)
                => ENABLED Accept(r))
    /\ [][/\ \A r \in Routes :
                (lst[r] = "accepting" /\ lst'[r] = "acceptFailed")
                    => /\ \A q \in Routes \ {r} :
                            lst'[q] = lst[q] /\ sock'[q] = sock[q]
                       /\ sess' = sess
                       /\ mainPc' = mainPc
                       /\ exitCode' = exitCode
          /\ (exitCode' = 1 /\ exitCode # 1)
                => \/ Len(errs') > 0
                   \/ \E r \in Routes :
                        lst[r] \in {"bindFailed", "acceptFailed"}]_vars

\* the loop of the first route has ended on an accept failure while the
\* process runs; the second route is accepting and has a connection
C31_Witness ==
    /\ Running
    /\ Len(lst) = 2
    /\ lst[1] = "acceptFailed"
    /\ ~sock[1].open
    /\ lst[2] = "accepting"
    /\ sock[2].open
    /\ \E s \in Sessions : sess[s].route = 2

\* C32: the two byte counters of a session are at every moment, and so at
\* its end, the number of bytes that session has relayed client -> upstream
\* and upstream -> client; a counter grows only in a copy step of its own
\* session, by the number of bytes that step moved, and never shrinks.
C32_CountersMatchRelayedBytes ==
    /\ [](\A s \in Sessions :
            /\ sess[s].bytesC2U = Len(sess[s].upRecv)
            /\ sess[s].bytesU2C = Len(sess[s].cRecv)
            /\ sess[s].bytesC2U <= Len(sess[s].cWritten)
            /\ sess[s].bytesU2C <= Len(sess[s].upWritten))
    /\ [][\A s \in Sessions :
            /\ sess'[s].bytesC2U >= sess[s].bytesC2U
            /\ sess'[s].bytesU2C >= sess[s].bytesU2C
            /\ (\/ sess'[s].bytesC2U # sess[s].bytesC2U
                \/ sess'[s].bytesU2C # sess[s].bytesU2C)
                => /\ sess[s].pc = "Relaying"
                   /\ sess'[s].bytesC2U - sess[s].bytesC2U
                        = Len(sess'[s].upRecv) - Len(sess[s].upRecv)
                   /\ sess'[s].bytesU2C - sess[s].bytesU2C
                        = Len(sess'[s].cRecv) - Len(sess[s].cRecv)
                   /\ \A t \in Sessions \ {s} : sess'[t] = sess[t]]_vars

\* two sessions of one route have ended: the client of one sent MaxBytes
\* bytes (four, the length of "ping") to the echoing upstream and read them
\* back (counters 4 and 4), the client of the other sent nothing (0 and 0)
C32_Witness ==
    \E s, t \in Sessions :
        /\ sess[s].route = sess[t].route
        /\ sess[s].pc = "Closed"
        /\ Len(sess[s].cWritten) = MaxBytes
        /\ sess[s].cRecv = sess[s].cWritten
        /\ sess[s].bytesC2U = MaxBytes
        /\ sess[s].bytesU2C = MaxBytes
        /\ sess[t].pc = "Closed"
        /\ sess[t].consulted = 1
        /\ ~sess[t].curse.DropConnections
        /\ sess[t].cWritten = <<>>
        /\ sess[t].bytesC2U = 0
        /\ sess[t].bytesU2C = 0

\* the positions in errs of the duplicate-port errors
DuplicateErrors ==
    {k \in 1..Len(errs) : errs[k].kind = "duplicate local port"}

\* the localPort values of the records
PortsOf(rs) == {rs[i].LocalPort : i \in 1..Len(rs)}

\* C33: validateConfig returns as many duplicate-port errors as there are
\* records minus distinct localPort values -- k-1 for each port that k
\* records share -- no two of them for the same index, and each for the
\* index of a record that repeats the port of an earlier one.
C33_DuplicateErrorCount ==
    op = "validateConfig"
        => /\ Cardinality(DuplicateErrors)
                = Len(routes) - Cardinality(PortsOf(routes))
           /\ \A p \in PortsOf(routes) :
                Cardinality({k \in DuplicateErrors :
                                routes[errs[k].index + 1].LocalPort = p})
                    = Cardinality({i \in 1..Len(routes) :
                                routes[i].LocalPort = p}) - 1
           /\ \A k, m \in DuplicateErrors :
                errs[k].index = errs[m].index => k = m
           /\ \A k \in DuplicateErrors :
                /\ errs[k].index + 1 \in 1..Len(routes)
                /\ \E j \in 1..errs[k].index :
                      routes[j].LocalPort = routes[errs[k].index + 1].LocalPort

\* three records on one port: two duplicate-port errors, for the second
\* and the third record
C33_Witness ==
    /\ op = "validateConfig"
    /\ Len(routes) = 3
    /\ Cardinality(PortsOf(routes)) = 1
    /\ Cardinality(DuplicateErrors) = 2
    /\ {errs[k].index : k \in DuplicateErrors} = {1, 2}

\* C34 as stated: after n fault decisions exactly n values have been drawn
\* from the random source, whatever the DropRate.
C34_OneDrawPerCall == randCalls = decisions

\* C34: a call of NewCurse draws exactly one value from the random source
\* when the DropRate is above 0 (1.0 included) and none when it is 0 or
\* below; after n decisions for a route the number of values drawn is n
\* when its DropRate is above 0 and 0 otherwise.
C34_DrawsOnlyForPositiveRate ==
    /\ [](/\ ritual.DropRate > 0 => randCalls = decisions
          /\ ritual.DropRate <= 0 => randCalls = 0 /\ draw = -1 /\ drops = 0
          /\ (decisions > 0 /\ ritual.DropRate > 0) => draw \in Draws)
    /\ [][decisions' = decisions + 1
            => randCalls' - randCalls
                  = (IF ritual.DropRate > 0 THEN 1 ELSE 0)]_vars

\* MaxDecisions decisions of a route that always drops: one value drawn
\* for each
C34_Witness ==
    /\ ritual.DropRate = One
    /\ decisions = MaxDecisions
    /\ randCalls = MaxDecisions
    /\ drops = MaxDecisions

\* NewCurse64 and NewCurse are the same function where the delay fits
\* TLC's integers
NewCurse64Agrees ==
    \A d \in {-100, 0, 1, 500, 1000, 1500}, l \in {-100, -1, 0, 1, 100, 250} :
        (ritual64 = Ritual(d, Int64(l)) /\ curse64.called)
            => \E r \in Draws :
                LET c == NewCurse(Ritual(d, l), r)
                IN  /\ curse64.DropConnections = c.DropConnections
                    /\ curse64.StartDelay = Int64(c.StartDelay)

\* C35 as stated: whatever its parameters, NewCurse never drops when the
\* DropRate is 0 or below, returns a StartDelay of 0 when LatencyMs is 0
\* or below, and never returns a negative StartDelay.
C35_SafeOnAnyInput ==
    curse64.called
        => /\ ritual64.DropRate <= 0 => ~curse64.DropConnections
           /\ ~Positive64(ritual64.LatencyMs) => curse64.StartDelay = Int64(0)
           /\ ~Negative64(curse64.StartDelay)

\* the number of dials the sessions 1..n have made
RECURSIVE DialsOf(_)
DialsOf(n) == IF n = 0 THEN 0 ELSE sess[n].dials + DialsOf(n - 1)

\* C36: a session dials once, when its handler starts, the upstream of the
\* route it was accepted on; the dial is not repeated, whether it failed or
\* succeeded, so the number of dials made is the number of sessions whose
\* handler has started dialing; the upstream connection of a session is the
\* one its own dial returned, and no two sessions have the same one.
C36_OneDialPerConnection ==
    /\ [](/\ \A s \in Sessions :
                /\ sess[s].dials = (IF sess[s].pc = "Start" THEN 0 ELSE 1)
                /\ sess[s].upstream = RouteOf(s).Upstream
                /\ sess[s].upOpen => sess[s].upConn = s
                /\ sess[s].upConn # 0 => sess[s].dials = 1
          /\ \A s, t \in Sessions :
                (s # t /\ sess[s].upConn # 0) => sess[s].upConn # sess[t].upConn
          /\ DialsOf(Len(sess))
                = Cardinality({s \in Sessions : sess[s].pc # "Start"}))
    /\ [][\A s \in Sessions :
            /\ sess'[s].dials # sess[s].dials
                => sess[s].pc = "Start" /\ sess'[s].pc = "DialUpstream"
            /\ (sess[s].pc = "DialUpstream" /\ ~sess[s].upOpen
                    /\ sess'[s] # sess[s] /\ ~sess'[s].upOpen
                    /\ sess'[s].cWritten = sess[s].cWritten
                    /\ sess'[s].clientClosed = sess[s].clientClosed)
                => sess'[s].pc = "Closed"
            /\ sess[s].upConn # 0 => sess'[s].upConn = sess[s].upConn]_vars

\* two connections of one route: the dial of the first failed and was not
\* repeated, the dial of the second returned its upstream connection
C36_Witness ==
    \E s, t \in Sessions :
        /\ sess[s].route = sess[t].route
        /\ DialFailed(sess[s])
        /\ sess[s].dials = 1
        /\ sess[s].upConn = 0
        /\ sess[t].upOpen
        /\ sess[t].dials = 1
        /\ sess[t].upConn = t
        /\ DialsOf(Len(sess)) = 2

\* the errors validateConfig returned for the record at routeIndex that are
\* not duplicate-port errors, in the order returned
NonDuplicateErrorsAt(routeIndex) ==
    SelectSeq(errs, LAMBDA e :
        e.index = routeIndex /\ e.kind # "duplicate local port")

\* C37: whether a record is valid plays no part in the duplicate check: a
\* record gets the field errors validateRouteConfig gives it, and it gets a
\* duplicate-port error whenever an earlier record has its localPort,
\* whether that earlier record or the record itself is valid or not, an
\* out-of-range localPort included.
C37_DuplicateCheckIgnoresValidity ==
    op = "validateConfig"
        => \A i \in 1..Len(routes) :
            /\ NonDuplicateErrorsAt(i - 1) = validateRouteConfig(routes[i], i - 1)
            /\ \A j \in 1..(i - 1) :
                routes[j].LocalPort = routes[i].LocalPort
                    => /\ DuplicateAt(i - 1)
                       /\ Len(errs) > Len(validateRouteConfig(routes[j], j - 1))
                                      + Len(validateRouteConfig(routes[i], i - 1))

\* two records with localPort 0: an invalid-port error for each and a
\* duplicate-port error for the second
C37_Witness ==
    /\ op = "validateConfig"
    /\ Len(routes) = 2
    /\ routes[1].LocalPort = 0
    /\ routes[2].LocalPort = 0
    /\ \E k \in 1..Len(errs) :
            errs[k].kind = "invalid local port" /\ errs[k].index = 0
    /\ \E k \in 1..Len(errs) :
            errs[k].kind = "invalid local port" /\ errs[k].index = 1
    /\ DuplicateAt(1)
    /\ ~DuplicateAt(0)

\* the routes whose goroutine main has started: each of them calls
\* net.Listen on the local port of its route
BindAttempted == {r \in Routes : lst[r] # "unstarted"}

ZeroRoutesLoaded ==
    /\ mainPc # "load"
    /\ errs = <<>>
    /\ ~table.isNil
    /\ Len(table.items) = 0

\* C39: with a loaded table of zero routes main starts no listener
\* goroutine, so nothing is ever bound or accepted; the loop over the
\* routes is over at once, the wait for the listeners can complete at once
\* whether or not a termination signal has arrived, and main then exits
\* with status 0. Until then the only steps are those of main and the
\* arrival of a signal.
C39_ZeroRoutesTerminates ==
    /\ [](ZeroRoutesLoaded
            => /\ spawned = 0 /\ lst = <<>> /\ sock = <<>> /\ sess = <<>>
               /\ ~ENABLED MainSpawn
               /\ mainPc = "spawn" => ENABLED MainWait
               /\ mainPc = "wait" => ENABLED MainReturn
               /\ mainPc = "exited" => exitCode = 0)
    /\ [][(ZeroRoutesLoaded /\ Running)
            => \/ mainPc = "spawn" /\ mainPc' = "wait"
               \/ mainPc = "wait" /\ mainPc' = "exited" /\ exitCode' = 0
               \/ ~cancelled /\ cancelled' /\ mainPc' = mainPc]_vars

\* main has exited with status 0 on an empty route list, no signal having
\* arrived
C39_Witness ==
    /\ ZeroRoutesLoaded
    /\ document.objects = <<>>
    /\ mainPc = "exited"
    /\ exitCode = 0
    /\ ~cancelled
    /\ spawned = 0

====
